---- MODULE Spec2Model ----
(***************************************************************************)
(* RivalSearchMCP: the request-processing pipeline of                      *)
(* src/middleware/middleware.py (six middleware stages registered by       *)
(* register_middleware and wrapped around every request).                  *)
(*                                                                         *)
(* A request walks the chain outermost stage first, reaches the core       *)
(* handler, and its result or exception unwinds through the same stages    *)
(* in the opposite order.  Every stage is cut at its `await call_next`:    *)
(* the code before it is one action (...Enter / ...OnRequest), the code    *)
(* after it (the return or the except clause) is another (...Exit).        *)
(***************************************************************************)
EXTENDS Integers, Sequences, FiniteSets, TLC

(***************************************************************************)
(* Bounds of the model                                                     *)
(***************************************************************************)
MaxRequests == 2        \* requests dispatched in one behaviour
MaxTime == 90           \* the clock stops advancing here (seconds)
MaxLimit == 2           \* max_requests_per_minute is drawn from 1..MaxLimit
MaxResults == 3         \* an engine returns 0..MaxResults results

(***************************************************************************)
(* Program constants                                                       *)
(***************************************************************************)
WindowSeconds == 60     \* cutoff_time = current_time - 60
SampleCap == 100        \* "Keep only recent measurements (last 100)"

\* Amounts by which the clock advances: a timestamp becomes 30 seconds old
\* (inside the window), 60 (exactly on the cutoff) and 90 (outside).
TickSteps == {30}

(***************************************************************************)
(* Strings that the code inspects are sequences of one-character strings.  *)
(***************************************************************************)
UpperCase == <<"A","B","C","D","E","F","G","H","I","J","K","L","M",
               "N","O","P","Q","R","S","T","U","V","W","X","Y","Z">>
LowerCase == <<"a","b","c","d","e","f","g","h","i","j","k","l","m",
               "n","o","p","q","r","s","t","u","v","w","x","y","z">>

\* str.lower() on one character
LowerChar(c) ==
    IF \E i \in 1..Len(UpperCase) : UpperCase[i] = c
    THEN LowerCase[CHOOSE i \in 1..Len(UpperCase) : UpperCase[i] = c]
    ELSE c

\* the payload scanned as it is
LowerForgotten(s) == s

\* str.lower()
Lower(s) == [i \in 1..Len(s) |-> LowerChar(s[i])]

\* `pattern in s` for strings
Contains(s, pattern) ==
    \E i \in 0..(Len(s) - Len(pattern)) :
        \A j \in 1..Len(pattern) : s[i + j] = pattern[j]

\* s.startswith(prefix)
StartsWith(s, prefix) ==
    /\ Len(s) >= Len(prefix)
    /\ \A j \in 1..Len(prefix) : s[j] = prefix[j]

\* defaultdict: a table is a function whose domain is the keys created so far
Get(tbl, k, default) == IF k \in DOMAIN tbl THEN tbl[k] ELSE default
Put(tbl, k, v) == [x \in (DOMAIN tbl) \cup {k} |-> IF x = k THEN v ELSE tbl[x]]
EmptyTable == [x \in {} |-> 0]

(***************************************************************************)
(* Inputs                                                                  *)
(***************************************************************************)
ToolsCall     == <<"t","o","o","l","s","/","c","a","l","l">>
ResourcesRead == <<"r","e","s","o","u","r","c","e","s","/","r","e","a","d">>
PromptsGet    == <<"p","r","o","m","p","t","s","/","g","e","t">>
Ping          == <<"p","i","n","g">>
Methods == {ToolsCall, ResourcesRead, PromptsGet, Ping}

ToolsPrefix     == <<"t","o","o","l","s","/">>
ResourcesPrefix == <<"r","e","s","o","u","r","c","e","s","/">>
PromptsPrefix   == <<"p","r","o","m","p","t","s","/">>

\* str(context.message) of the requests that are sent
PayloadHello     == <<"h","e","l","l","o">>
PayloadDropLower == <<"d","r","o","p"," ","t","a","b","l","e"," ",
                      "u","s","e","r","s">>
PayloadDropUpper == <<"D","R","O","P"," ","T","A","B","L","E"," ",
                      "u","s","e","r","s">>
PayloadDropTab   == <<"d","r","o","p","t","a","b","l","e">>
Payloads == {PayloadHello, PayloadDropLower, PayloadDropUpper, PayloadDropTab}

\* context.fastmcp_context: absent, or carrying a client_id
NoContext == "NoContext"
Contexts == {"c1", "c2", NoContext}

(***************************************************************************)
(* Exceptions: the class and the message (a sequence of text fragments).   *)
(***************************************************************************)
Error(type, msg) == [type |-> type, msg |-> msg]
TypedErrors == {"ToolError", "ResourceError", "PromptError"}

\* what the core handler (the tool, resource or prompt) can do
CoreErrors == {Error("ToolError", <<"tool failed">>),
               Error("ResourceError", <<"no such resource">>),
               Error("ValueError", <<"boom">>)}
CoreResult == "result"

(***************************************************************************)
(* register_middleware: the stages in the order they are added, and the   *)
(* order in which the server runs them ("last added runs first").          *)
(***************************************************************************)
\* the security stage added last instead of first
middlewareSecurityLast == <<"ErrorHandling", "RateLimiting", "Performance",
                            "Timing", "Logging", "Security">>

\* the rate limiter added first: the error handling stage is outer to it
middlewareRateLimitingFirst == <<"RateLimiting", "Security", "ErrorHandling",
                                 "Performance", "Timing", "Logging">>

middleware == <<"Security", "ErrorHandling", "RateLimiting",
                "Performance", "Timing", "Logging">>

\* SecurityMiddleware.suspicious_patterns
suspicious_patterns ==
    << <<"s","c","r","i","p","t">>,
       <<"j","a","v","a","s","c","r","i","p","t">>,
       <<"e","v","a","l">>,
       <<"e","x","e","c">>,
       <<"s","y","s","t","e","m">>,
       <<"r","m"," ","-","r","f">>,
       <<"d","r","o","p"," ","t","a","b","l","e">>,
       <<"u","n","i","o","n"," ","s","e","l","e","c","t">> >>

(***************************************************************************)
(* State                                                                   *)
(***************************************************************************)
VARIABLES
    now,                        \* the clock (time.time / time.perf_counter)
    budget,                     \* requests that may still be dispatched
    reqs,                       \* the requests inside the chain, by slot
    client_requests,            \* RateLimitingMiddleware.client_requests
    eh_error_counts,            \* ErrorHandlingMiddleware.error_counts
    operation_times,            \* PerformanceMonitoringMiddleware.*
    operation_counts,
    pm_error_counts,
    max_requests_per_minute,    \* constructor arguments
    per_client,
    transform_errors,
    block_suspicious_requests,
    decisions,                  \* observed: every rate limit check, in order
    ENVIRONMENT,                \* os.getenv("ENVIRONMENT", "development")
    calls,                      \* the running calls of the orchestrator
    shutdown,                   \* the progress of close_all_engines
    orchestrator,               \* multi_search._orchestrator: instances made
    msearch,                    \* the running calls of multi_search
    gsearch,                    \* the running call of google_search
    pool                        \* clients._http_client, _cloudscraper_session

config == <<max_requests_per_minute, per_client, transform_errors,
            block_suspicious_requests, ENVIRONMENT>>
tooling == <<orchestrator, msearch, gsearch, pool>>
search == <<calls, shutdown, orchestrator, msearch, gsearch, pool>>
tables == <<client_requests, eh_error_counts, operation_times,
            operation_counts, pm_error_counts, decisions>>
vars == <<now, budget, reqs, client_requests, eh_error_counts,
          operation_times, operation_counts, pm_error_counts,
          max_requests_per_minute, per_client, transform_errors,
          block_suspicious_requests, decisions, ENVIRONMENT, calls,
          shutdown, orchestrator, msearch, gsearch, pool>>

\* the stages registered whatever the mode
app_middlewareAlways == middleware

\* server.py: ENVIRONMENT, "development" unless the variable is set
Environments == {"production", "development", "Production"}

\* server.py: the stages are registered in production mode only
app_middleware == IF ENVIRONMENT = "production" THEN middleware ELSE <<>>

\* Chain[1] is the outermost stage, Chain[Len(Chain)] the innermost
Chain == [i \in 1..Len(app_middleware) |->
            app_middleware[Len(app_middleware) + 1 - i]]
CorePos == Len(Chain) + 1

Slots == DOMAIN reqs
Idle == [phase |-> "idle"]

\* A dispatched request: the context, where it is in the chain, the locals
\* of the suspended stages, what is travelling back, and the order in which
\* the stages and the core handler ran for it.
NewContext(method, ctx, message) ==
    [phase |-> "call", pos |-> 1,
     method |-> method, fastmcp_context |-> ctx, message |-> message,
     pm_start_time |-> 0, tm_start_time |-> 0, tm_level |-> "none",
     result |-> CoreResult, error |-> Error("none", <<>>),
     trace |-> <<>>]

InFlight(r) == reqs[r].phase \in {"call", "return", "raise"}
AtStage(r, stage, phase) ==
    /\ reqs[r].phase = phase
    /\ reqs[r].pos \in 1..Len(Chain)
    /\ Chain[reqs[r].pos] = stage

\* `await call_next(context)`: control passes to the next inner stage
CallNext(rec, stage) ==
    [rec EXCEPT !.pos = @ + 1, !.trace = Append(@, <<stage, "enter">>)]

\* a stage that warns and calls the continuation all the same
RejectButContinue(rec, stage, error) ==
    [rec EXCEPT !.pos = @ + 1, !.trace = Append(@, <<stage, "reject">>)]

\* a stage raises before it calls the continuation
Reject(rec, stage, error) ==
    [rec EXCEPT !.phase = IF rec.pos = 1 THEN "failed" ELSE "raise",
                !.pos = @ - 1, !.error = error,
                !.trace = Append(@, <<stage, "reject">>)]

\* a stage returns the continuation's result to its caller
Return(rec, stage) ==
    [rec EXCEPT !.phase = IF rec.pos = 1 THEN "returned" ELSE "return",
                !.pos = @ - 1,
                !.trace = Append(@, <<stage, "exit">>)]

\* an except clause that logs and forgets to raise again
RaiseSwallowed(rec, stage, error) ==
    [rec EXCEPT !.phase = IF rec.pos = 1 THEN "returned" ELSE "return",
                !.pos = @ - 1,
                !.trace = Append(@, <<stage, "exit">>)]

\* a stage lets an exception (the one it caught, or a new one) propagate
Raise(rec, stage, error) ==
    [rec EXCEPT !.phase = IF rec.pos = 1 THEN "failed" ELSE "raise",
                !.pos = @ - 1, !.error = error,
                !.trace = Append(@, <<stage, "except">>)]

\* a stage with no code after `await call_next`
PassThrough(rec, stage) ==
    IF rec.phase = "return" THEN Return(rec, stage)
    ELSE Raise(rec, stage, rec.error)

(***************************************************************************)
(* MultiSearchOrchestrator (src/tools/multi_search.py): the engines, what  *)
(* a search on one of them can do, and a running call of the orchestrator. *)
(***************************************************************************)
\* self.engine_order, and the keys of self.engines in insertion order
engine_order == <<"bing", "duckduckgo", "yahoo">>
engines == <<"bing", "duckduckgo", "yahoo">>

\* engine.search(...) raises, or returns a list of results
SearchRaises(text) == [raised |-> TRUE, error |-> text, results |-> <<>>]
SearchReturns(engine, n) ==
    [raised |-> FALSE, error |-> "",
     results |-> [i \in 1..n |-> [engine |-> engine, position |-> i]]]
SearchOutcomes(engine) ==
    {SearchRaises("timeout")} \cup
    {SearchReturns(engine, n) : n \in 0..MaxResults}

\* the arguments of a call that the summary echoes
Params == [query : {"q"}, extract_content : BOOLEAN,
           follow_links : {TRUE}, max_depth : {2}]

SearchOutcomesOf == [engine \in {"bing", "duckduckgo", "yahoo"} |-> SearchOutcomes(engine)]
IdleCall == [pc |-> "idle"]
NotClosing == [pc |-> "idle"]

\* result.to_dict() for every result
ToDicts(results) ==
    [i \in 1..Len(results) |->
        [engine |-> results[i].engine, position |-> results[i].position]]

\* no tool has been called: no orchestrator, no pooled client
IdleTool == [pc |-> "idle"]
EmptyPool == [http_client |-> 0, cloudscraper_session |-> 0,
              made |-> 0, sessions |-> 0, closed |-> {},
              closers |-> <<>>, log |-> <<>>]
InitTooling ==
    /\ orchestrator = 0
    /\ msearch = [m \in {1} |-> IdleTool]
    /\ gsearch = IdleTool
    /\ pool = EmptyPool

Init ==
    /\ now = 0
    /\ budget = MaxRequests
    /\ reqs = [r \in {1} |-> Idle]
    /\ client_requests = EmptyTable
    /\ eh_error_counts = EmptyTable
    /\ operation_times = EmptyTable
    /\ operation_counts = EmptyTable
    /\ pm_error_counts = EmptyTable
    /\ max_requests_per_minute \in 1..MaxLimit
    /\ per_client = TRUE
    /\ transform_errors = TRUE
    /\ block_suspicious_requests = TRUE
    /\ decisions = <<>>
    /\ ENVIRONMENT = "production"
    /\ calls = [c \in {1} |-> IdleCall]
    /\ shutdown = NotClosing
    /\ InitTooling

(***************************************************************************)
(* The environment: a request arrives, the clock advances, the caller      *)
(* takes the outcome.                                                      *)
(***************************************************************************)
Dispatch(r, method, ctx, message) ==
    /\ reqs[r].phase = "idle"
    /\ \A q \in Slots : q < r => reqs[q].phase # "idle"
    /\ budget > 0
    /\ budget' = budget - 1
    /\ reqs' = [reqs EXCEPT ![r] = NewContext(method, ctx, message)]
    /\ UNCHANGED <<now, tables, config, search>>

\* Stage code runs in negligible time: seconds pass only between requests
\* or while some request is suspended in its core handler.
Tick(d) ==
    /\ now + d <= MaxTime
    /\ \/ \A r \in Slots : ~InFlight(r)
       \/ \E r \in Slots : reqs[r].phase = "call" /\ reqs[r].pos = CorePos
    /\ now' = now + d
    /\ UNCHANGED <<budget, reqs, tables, config, search>>

Retire(r) ==
    /\ reqs[r].phase \in {"returned", "failed"}
    /\ reqs' = [reqs EXCEPT ![r] = Idle]
    /\ UNCHANGED <<now, budget, tables, config, search>>

\* the tool, resource or prompt behind the chain returns
CoreReturns(r) ==
    /\ reqs[r].phase = "call"
    /\ reqs[r].pos = CorePos
    /\ reqs' = [reqs EXCEPT ![r] =
                  [@ EXCEPT !.phase = IF Len(Chain) = 0 THEN "returned"
                                       ELSE "return",
                            !.pos = Len(Chain),
                            !.result = CoreResult,
                            !.trace = Append(@, <<"core", "exit">>)]]
    /\ UNCHANGED <<now, budget, tables, config, search>>

\* ... or raises
CoreRaises(r, e) ==
    /\ reqs[r].phase = "call"
    /\ reqs[r].pos = CorePos
    /\ reqs' = [reqs EXCEPT ![r] =
                  [@ EXCEPT !.phase = IF Len(Chain) = 0 THEN "failed"
                                       ELSE "raise",
                            !.pos = Len(Chain),
                            !.error = e,
                            !.trace = Append(@, <<"core", "except">>)]]
    /\ UNCHANGED <<now, budget, tables, config, search>>

(***************************************************************************)
(* LoggingMiddleware.on_message: log lines only; the request, the result   *)
(* and the exception are handed on as they are.                            *)
(***************************************************************************)
LoggingEnter(r) ==
    /\ AtStage(r, "Logging", "call")
    /\ reqs' = [reqs EXCEPT ![r] = CallNext(@, "Logging")]
    /\ UNCHANGED <<now, budget, tables, config, search>>

\* the except clause logs the failure and returns instead of raising
LoggingExitSwallows(r) ==
    /\ AtStage(r, "Logging", "return") \/ AtStage(r, "Logging", "raise")
    /\ reqs' = [reqs EXCEPT ![r] = Return(@, "Logging")]
    /\ UNCHANGED <<now, budget, tables, config, search>>

LoggingExit(r) ==
    /\ AtStage(r, "Logging", "return") \/ AtStage(r, "Logging", "raise")
    /\ reqs' = [reqs EXCEPT ![r] =
                  IF @.phase = "return" THEN Return(@, "Logging")
                  ELSE Raise(@, "Logging", @.error)]
    /\ UNCHANGED <<now, budget, tables, config, search>>

(***************************************************************************)
(* TimingMiddleware.on_request                                             *)
(***************************************************************************)
slow_threshold_ms == 2000

TimingEnter(r) ==
    /\ AtStage(r, "Timing", "call")
    /\ reqs' = [reqs EXCEPT ![r] =
                  CallNext([@ EXCEPT !.tm_start_time = now], "Timing")]
    /\ UNCHANGED <<now, budget, tables, config, search>>

TimingExit(r) ==
    /\ AtStage(r, "Timing", "return") \/ AtStage(r, "Timing", "raise")
    /\ LET duration_ms == (now - reqs[r].tm_start_time) * 1000
           level == IF reqs[r].phase = "raise" THEN "error"
                    ELSE IF duration_ms > slow_threshold_ms THEN "warning"
                    ELSE "info"
       IN reqs' = [reqs EXCEPT ![r] =
                     IF @.phase = "return"
                     THEN Return([@ EXCEPT !.tm_level = level], "Timing")
                     ELSE Raise([@ EXCEPT !.tm_level = level], "Timing",
                                @.error)]
    /\ UNCHANGED <<now, budget, tables, config, search>>

(***************************************************************************)
(* PerformanceMonitoringMiddleware.on_request                              *)
(***************************************************************************)
\* the first 100 samples are kept, the newest are dropped
LastSamplesOldest(times) ==
    IF Len(times) > SampleCap
    THEN SubSeq(times, 1, SampleCap)
    ELSE times

\* self.operation_times[operation][-100:]
LastSamples(times) ==
    IF Len(times) > SampleCap
    THEN SubSeq(times, Len(times) - SampleCap + 1, Len(times))
    ELSE times

\* the success path: record, then keep the last 100
RecordSuccess(times, duration) == LastSamples(Append(times, duration))

\* the except path records no sample
RecordFailureNotSampled(times, duration) == times

\* the except path: record
RecordFailure(times, duration) == Append(times, duration)

PerformanceEnter(r) ==
    /\ AtStage(r, "Performance", "call")
    /\ reqs' = [reqs EXCEPT ![r] =
                  CallNext([@ EXCEPT !.pm_start_time = now], "Performance")]
    /\ UNCHANGED <<now, budget, tables, config, search>>

\* another request is suspended in the continuation of the stage
OthersInside(r, stage) ==
    \E q \in Slots \ {r} :
        /\ InFlight(q)
        /\ \E i \in 1..Len(reqs[q].trace) : reqs[q].trace[i] = <<stage, "enter">>
        /\ \A i \in 1..Len(reqs[q].trace) :
              reqs[q].trace[i] \notin {<<stage, "exit">>, <<stage, "except">>}

\* the count is read before the continuation and written after it: the
\* update of a request that finished in between is lost
PerformanceExitLosesUpdate(r) ==
    /\ AtStage(r, "Performance", "return") \/ AtStage(r, "Performance", "raise")
    /\ LET operation == reqs[r].method
           duration == now - reqs[r].pm_start_time
           times == Get(operation_times, operation, <<>>)
       IN IF reqs[r].phase = "return"
          THEN /\ operation_times' =
                    Put(operation_times, operation,
                        RecordSuccess(times, duration))
               /\ operation_counts' =
                    Put(operation_counts, operation,
                        IF OthersInside(r, "Performance")
                        THEN Get(operation_counts, operation, 0)
                        ELSE Get(operation_counts, operation, 0) + 1)
               /\ UNCHANGED pm_error_counts
               /\ reqs' = [reqs EXCEPT ![r] = Return(@, "Performance")]
          ELSE /\ pm_error_counts' =
                    Put(pm_error_counts, operation,
                        Get(pm_error_counts, operation, 0) + 1)
               /\ operation_times' =
                    Put(operation_times, operation,
                        RecordFailure(times, duration))
               /\ operation_counts' =
                    Put(operation_counts, operation,
                        IF OthersInside(r, "Performance")
                        THEN Get(operation_counts, operation, 0)
                        ELSE Get(operation_counts, operation, 0) + 1)
               /\ reqs' = [reqs EXCEPT ![r] =
                             Raise(@, "Performance", @.error)]
    /\ UNCHANGED <<now, budget, client_requests, eh_error_counts, decisions,
                   config, search>>

\* the except path counts the error but not the operation
PerformanceExitFailureUncounted(r) ==
    /\ AtStage(r, "Performance", "return") \/ AtStage(r, "Performance", "raise")
    /\ LET operation == reqs[r].method
           duration == now - reqs[r].pm_start_time
           times == Get(operation_times, operation, <<>>)
       IN IF reqs[r].phase = "return"
          THEN /\ operation_times' =
                    Put(operation_times, operation,
                        RecordSuccess(times, duration))
               /\ operation_counts' =
                    Put(operation_counts, operation,
                        Get(operation_counts, operation, 0) + 1)
               /\ UNCHANGED pm_error_counts
               /\ reqs' = [reqs EXCEPT ![r] = Return(@, "Performance")]
          ELSE /\ pm_error_counts' =
                    Put(pm_error_counts, operation,
                        Get(pm_error_counts, operation, 0) + 1)
               /\ operation_times' =
                    Put(operation_times, operation,
                        RecordFailure(times, duration))
               /\ UNCHANGED operation_counts
               /\ reqs' = [reqs EXCEPT ![r] =
                             Raise(@, "Performance", @.error)]
    /\ UNCHANGED <<now, budget, client_requests, eh_error_counts, decisions,
                   config, search>>

PerformanceExit(r) ==
    /\ AtStage(r, "Performance", "return") \/ AtStage(r, "Performance", "raise")
    /\ LET operation == reqs[r].method
           duration == now - reqs[r].pm_start_time
           times == Get(operation_times, operation, <<>>)
       IN IF reqs[r].phase = "return"
          THEN /\ operation_times' =
                    Put(operation_times, operation,
                        RecordSuccess(times, duration))
               /\ operation_counts' =
                    Put(operation_counts, operation,
                        Get(operation_counts, operation, 0) + 1)
               /\ UNCHANGED pm_error_counts
               /\ reqs' = [reqs EXCEPT ![r] = Return(@, "Performance")]
          ELSE /\ pm_error_counts' =
                    Put(pm_error_counts, operation,
                        Get(pm_error_counts, operation, 0) + 1)
               /\ operation_times' =
                    Put(operation_times, operation,
                        RecordFailure(times, duration))
               /\ operation_counts' =
                    Put(operation_counts, operation,
                        Get(operation_counts, operation, 0) + 1)
               /\ reqs' = [reqs EXCEPT ![r] =
                             Raise(@, "Performance", @.error)]
    /\ UNCHANGED <<now, budget, client_requests, eh_error_counts, decisions,
                   config, search>>

\* sum, min and max of a list of durations
RECURSIVE SumFrom(_, _, _)
SumFrom(times, lo, hi) ==
    IF lo > hi THEN 0
    ELSE IF lo = hi THEN times[lo]
    ELSE LET mid == (lo + hi) \div 2
         IN SumFrom(times, lo, mid) + SumFrom(times, mid + 1, hi)

Sum(times) == SumFrom(times, 1, Len(times))

Min(times) == CHOOSE t \in {times[i] : i \in 1..Len(times)} :
                  \A i \in 1..Len(times) : t <= times[i]

Max(times) == CHOOSE t \in {times[i] : i \in 1..Len(times)} :
                  \A i \in 1..Len(times) : t >= times[i]

\* a / b and 1 - q, as fractions: the quotients of get_metrics are not
\* rounded here
Quotient(a, b) == [num |-> a, den |-> b]
OneMinus(q) == [num |-> q.den - q.num, den |-> q.den]

\* get_metrics: one entry per counted operation that has samples
get_metrics ==
    [operation \in {m \in DOMAIN operation_counts :
                        Get(operation_times, m, <<>>) # <<>>} |->
        LET times == operation_times[operation]
        IN [count |-> operation_counts[operation],
            error_count |-> Get(pm_error_counts, operation, 0),
            avg_time_ms |-> Quotient(Sum(times) * 1000, Len(times)),
            min_time_ms |-> Min(times) * 1000,
            max_time_ms |-> Max(times) * 1000,
            success_rate |->
                OneMinus(Quotient(Get(pm_error_counts, operation, 0),
                                  operation_counts[operation]))]]

(***************************************************************************)
(* RateLimitingMiddleware                                                  *)
(***************************************************************************)
\* one window for all clients
GetClientIdGlobal(ctx) == "global"

\* _get_client_id
GetClientId(ctx) ==
    IF per_client /\ ctx # NoContext
    THEN (IF ctx = "None" THEN "unknown" ELSE ctx)
    ELSE "global"

\* a request made exactly 60 seconds ago is kept
PruneKeepsBoundary(window, current_time) ==
    LET cutoff_time == current_time - WindowSeconds
    IN SelectSeq(window, LAMBDA req_time : req_time >= cutoff_time)

\* the list comprehension that cleans old requests
Prune(window, current_time) ==
    LET cutoff_time == current_time - WindowSeconds
    IN SelectSeq(window, LAMBDA req_time : req_time > cutoff_time)

\* the rate limit check, off by one
OverLimitOffByOne(window) == Len(window) > max_requests_per_minute

\* the rate limit check
OverLimit(window) == Len(window) >= max_requests_per_minute

\* the attempt is recorded before the limit is checked
WindowAfterRecordsRejected(window, current_time) ==
    Append(window, current_time)

\* the pruned window after the check: the current request is added to it
\* only when the check lets it through
WindowAfter(window, current_time) ==
    IF OverLimit(window) THEN window ELSE Append(window, current_time)

RateLimitExceeded ==
    Error("ToolError",
          <<"Rate limit exceeded. Maximum ",
            ToString(max_requests_per_minute),
            " requests per minute allowed.">>)

RateLimitingOnRequest(r) ==
    /\ AtStage(r, "RateLimiting", "call")
    /\ LET client_id == GetClientId(reqs[r].fastmcp_context)
           current_time == now
           window == Prune(Get(client_requests, client_id, <<>>),
                           current_time)
       IN /\ client_requests' =
               Put(client_requests, client_id,
                   WindowAfter(window, current_time))
          /\ reqs' = [reqs EXCEPT ![r] =
                        IF OverLimit(window)
                        THEN Reject(@, "RateLimiting", RateLimitExceeded)
                        ELSE CallNext(@, "RateLimiting")]
    /\ decisions' = Append(decisions,
                           [client |-> reqs[r].fastmcp_context, time |-> now,
                            admitted |-> reqs'[r].phase = "call"])
    /\ UNCHANGED <<now, budget, eh_error_counts, operation_times,
                   operation_counts, pm_error_counts, config, search>>

\* `return await call_next(context)`
RateLimitingExit(r) ==
    /\ AtStage(r, "RateLimiting", "return") \/ AtStage(r, "RateLimiting", "raise")
    /\ reqs' = [reqs EXCEPT ![r] = PassThrough(@, "RateLimiting")]
    /\ UNCHANGED <<now, budget, tables, config, search>>

(***************************************************************************)
(* ErrorHandlingMiddleware.on_message                                      *)
(***************************************************************************)
\* isinstance(error, ToolError)
IsToolErrorOnly(error) == error.type = "ToolError"

\* isinstance(error, (ToolError, ResourceError, PromptError))
IsFastMCPError(error) == error.type \in TypedErrors

\* every generic error turned into a tool error
TransformAlwaysTool(method, error) ==
    Error("ToolError", <<"Tool execution failed: ">> \o error.msg)

\* the wrapped error does not carry the text of the original
TransformDropsText(method, error) ==
    IF StartsWith(method, ToolsPrefix)
    THEN Error("ToolError", <<"Tool execution failed">>)
    ELSE IF StartsWith(method, ResourcesPrefix)
    THEN Error("ResourceError", <<"Resource access failed">>)
    ELSE IF StartsWith(method, PromptsPrefix)
    THEN Error("PromptError", <<"Prompt execution failed">>)
    ELSE Error("ToolError", <<"Operation failed">>)

\* the transformation of a generic error, chosen by the method prefix
Transform(method, error) ==
    IF StartsWith(method, ToolsPrefix)
    THEN Error("ToolError", <<"Tool execution failed: ">> \o error.msg)
    ELSE IF StartsWith(method, ResourcesPrefix)
    THEN Error("ResourceError", <<"Resource access failed: ">> \o error.msg)
    ELSE IF StartsWith(method, PromptsPrefix)
    THEN Error("PromptError", <<"Prompt execution failed: ">> \o error.msg)
    ELSE Error("ToolError", <<"Operation failed: ">> \o error.msg)

\* the caught error raised again whatever it is
ReraisedAsCaught(method, error) == error

\* generic errors are transformed whatever transform_errors says
ReraisedTransformed(method, error) ==
    IF error.type \in TypedErrors THEN error
    ELSE Error("ToolError", <<"Tool execution failed: ">> \o error.msg)

\* what the except clause raises
Reraised(method, error) ==
    IF transform_errors
    THEN (IF IsFastMCPError(error) THEN error ELSE Transform(method, error))
    ELSE error

ErrorHandlingEnter(r) ==
    /\ AtStage(r, "ErrorHandling", "call")
    /\ reqs' = [reqs EXCEPT ![r] = CallNext(@, "ErrorHandling")]
    /\ UNCHANGED <<now, budget, tables, config, search>>

\* the counter is keyed by the kind of the error that is raised on
ErrorHandlingExitCountsRaised(r) ==
    /\ AtStage(r, "ErrorHandling", "return") \/ AtStage(r, "ErrorHandling", "raise")
    /\ IF reqs[r].phase = "return"
       THEN /\ reqs' = [reqs EXCEPT ![r] = Return(@, "ErrorHandling")]
            /\ UNCHANGED eh_error_counts
       ELSE LET error == reqs[r].error
                error_key == <<Reraised(reqs[r].method, error).type,
                              reqs[r].method>>
            IN /\ eh_error_counts' =
                    Put(eh_error_counts, error_key,
                        Get(eh_error_counts, error_key, 0) + 1)
               /\ reqs' = [reqs EXCEPT ![r] =
                             Raise(@, "ErrorHandling",
                                   Reraised(@.method, error))]
    /\ UNCHANGED <<now, budget, client_requests, operation_times,
                   operation_counts, pm_error_counts, decisions, config, search>>

ErrorHandlingExit(r) ==
    /\ AtStage(r, "ErrorHandling", "return") \/ AtStage(r, "ErrorHandling", "raise")
    /\ IF reqs[r].phase = "return"
       THEN /\ reqs' = [reqs EXCEPT ![r] = Return(@, "ErrorHandling")]
            /\ UNCHANGED eh_error_counts
       ELSE LET error == reqs[r].error
                error_key == <<error.type, reqs[r].method>>
            IN /\ eh_error_counts' =
                    Put(eh_error_counts, error_key,
                        Get(eh_error_counts, error_key, 0) + 1)
               /\ reqs' = [reqs EXCEPT ![r] =
                             Raise(@, "ErrorHandling",
                                   Reraised(@.method, error))]
    /\ UNCHANGED <<now, budget, client_requests, operation_times,
                   operation_counts, pm_error_counts, decisions, config, search>>

(***************************************************************************)
(* SecurityMiddleware                                                      *)
(***************************************************************************)
\* _is_suspicious
IsSuspicious(message) ==
    LET message_str == Lower(message)
    IN \E k \in 1..Len(suspicious_patterns) :
          Contains(message_str, suspicious_patterns[k])

SecurityBlocked ==
    Error("ToolError", <<"Request blocked due to security concerns">>)

SecurityOnRequest(r) ==
    /\ AtStage(r, "Security", "call")
    /\ reqs' = [reqs EXCEPT ![r] =
                  IF IsSuspicious(@.message) /\ block_suspicious_requests
                  THEN Reject(@, "Security", SecurityBlocked)
                  ELSE CallNext(@, "Security")]
    /\ UNCHANGED <<now, budget, tables, config, search>>

\* `return await call_next(context)`
SecurityExit(r) ==
    /\ AtStage(r, "Security", "return") \/ AtStage(r, "Security", "raise")
    /\ reqs' = [reqs EXCEPT ![r] = PassThrough(@, "Security")]
    /\ UNCHANGED <<now, budget, tables, config, search>>

(***************************************************************************)
(* MultiSearchOrchestrator.search_all_engines and search_with_fallback.    *)
(* A call is cut at its `await engine.search(...)`: one action runs the    *)
(* code from the return (or the exception) of one search up to the start   *)
(* of the next search, or up to the return of the call.                    *)
(***************************************************************************)
CallSlots == DOMAIN calls

\* a new call; `started` and `finished` observe the searches it makes
NewCall(kind, params, fallback_on_failure) ==
    [pc |-> "entered", kind |-> kind, params |-> params,
     fallback_on_failure |-> fallback_on_failure,
     idx |-> 0, results |-> EmptyTable,
     successful_engines |-> 0, total_results |-> 0,
     started |-> <<>>, finished |-> <<>>,
     ret |-> [status |-> "none"]]

\* every search of the loop started at once
AwaitSearchAll(call, engine) ==
    [call EXCEPT !.started = @ \o engine_order]

\* `await engine.search(...)`: the search is started, the call is suspended
AwaitSearch(call, engine) ==
    [call EXCEPT !.started = Append(@, engine)]

\* the primary search of search_with_fallback
StartPrimary(call) ==
    AwaitSearch([call EXCEPT !.pc = "primary"], "bing")

\* the loop of search_all_engines reaches the engine at place idx
StartEngine(call, idx) ==
    AwaitSearch([call EXCEPT !.pc = "loop", !.idx = idx], engine_order[idx])

\* an empty list of results recorded as a success
EngineAttemptEmptySucceeds(outcome, timestamp) ==
    IF outcome.raised
    THEN [status |-> "failed", error |-> outcome.error, count |-> 0,
          results |-> <<>>, timestamp |-> timestamp]
    ELSE [status |-> "success", count |-> Len(outcome.results),
          results |-> ToDicts(outcome.results), timestamp |-> timestamp]

\* the entry that the loop records for a search, by what the search did
EngineAttempt(outcome, timestamp) ==
    IF outcome.raised
    THEN [status |-> "failed", error |-> outcome.error, count |-> 0,
          results |-> <<>>, timestamp |-> timestamp]
    ELSE IF outcome.results # <<>>
    THEN [status |-> "success", count |-> Len(outcome.results),
          results |-> ToDicts(outcome.results), timestamp |-> timestamp]
    ELSE [status |-> "no_results", count |-> 0, results |-> <<>>,
          timestamp |-> timestamp]

\* the body of the loop after the search: the entry and the two counters
Recorded(call, engine, outcome, timestamp) ==
    LET success == ~outcome.raised /\ outcome.results # <<>>
    IN [call EXCEPT
          !.results = Put(@, engine, EngineAttempt(outcome, timestamp)),
          !.successful_engines = IF success THEN @ + 1 ELSE @,
          !.total_results = IF success THEN @ + Len(outcome.results) ELSE @,
          !.finished = Append(@, [engine |-> engine, outcome |-> outcome])]

\* the summary counts the adapters searched, not the registry
SummaryOfAttempts(call, timestamp) ==
    [query |-> call.params.query,
     engines_tested |-> Cardinality(DOMAIN call.results),
     successful_engines |-> call.successful_engines,
     failed_engines |-> Cardinality(DOMAIN call.results)
                            - call.successful_engines,
     total_results |-> call.total_results,
     extract_content |-> call.params.extract_content,
     follow_links |-> call.params.follow_links,
     max_depth |-> call.params.max_depth,
     timestamp |-> timestamp]

\* "Generate summary"
Summary(call, timestamp) ==
    [query |-> call.params.query,
     engines_tested |-> Len(engine_order),
     successful_engines |-> call.successful_engines,
     failed_engines |-> Len(engine_order) - call.successful_engines,
     total_results |-> call.total_results,
     extract_content |-> call.params.extract_content,
     follow_links |-> call.params.follow_links,
     max_depth |-> call.params.max_depth,
     timestamp |-> timestamp]

\* search_all_engines returns
ReturnAll(call, timestamp) ==
    [call EXCEPT !.pc = "done",
                 !.ret = [summary |-> Summary(call, timestamp),
                          results |-> call.results]]

\* the primary result with the counters of the loop, which has not run
ReturnPrimaryLoopCounters(call, outcome, timestamp) ==
    [call EXCEPT
        !.pc = "done",
        !.finished = Append(@, [engine |-> "bing", outcome |-> outcome]),
        !.ret = [primary_engine |-> "bing",
                 status |-> "primary_success",
                 results |->
                    [e \in {"bing"} |->
                        [status |-> "success",
                         count |-> Len(outcome.results),
                         results |-> ToDicts(outcome.results),
                         timestamp |-> timestamp]],
                 summary |->
                    [query |-> call.params.query,
                     primary_engine |-> "bing",
                     successful_engines |-> call.successful_engines,
                     total_results |-> call.total_results,
                     extract_content |-> call.params.extract_content,
                     follow_links |-> call.params.follow_links,
                     max_depth |-> call.params.max_depth,
                     timestamp |-> timestamp]]]

\* search_with_fallback returns the results of the primary engine
ReturnPrimary(call, outcome, timestamp) ==
    [call EXCEPT
        !.pc = "done",
        !.finished = Append(@, [engine |-> "bing", outcome |-> outcome]),
        !.ret = [primary_engine |-> "bing",
                 status |-> "primary_success",
                 results |->
                    [e \in {"bing"} |->
                        [status |-> "success",
                         count |-> Len(outcome.results),
                         results |-> ToDicts(outcome.results),
                         timestamp |-> timestamp]],
                 summary |->
                    [query |-> call.params.query,
                     primary_engine |-> "bing",
                     successful_engines |-> 1,
                     total_results |-> Len(outcome.results),
                     extract_content |-> call.params.extract_content,
                     follow_links |-> call.params.follow_links,
                     max_depth |-> call.params.max_depth,
                     timestamp |-> timestamp]]]

\* the loop never breaks
StopsLoopAtEnd(call, outcome) ==
    call.idx = Len(engine_order)

\* `break`, or the end of engine_order
StopsLoop(call, outcome) ==
    \/ outcome.raised /\ ~call.fallback_on_failure
    \/ call.idx = Len(engine_order)

\* the exception of a search leaves search_all_engines
AfterSearchUncaught(call, outcome, timestamp) ==
    IF outcome.raised
    THEN [call EXCEPT
             !.pc = "raised",
             !.finished = Append(@, [engine |-> engine_order[call.idx],
                                     outcome |-> outcome])]
    ELSE LET rec == Recorded(call, engine_order[call.idx], outcome, timestamp)
         IN IF call.idx = Len(engine_order)
            THEN ReturnAll(rec, timestamp)
            ELSE StartEngine(rec, call.idx + 1)

\* the loop of search_all_engines from the end of one search on
AfterSearch(call, outcome, timestamp) ==
    LET rec == Recorded(call, engine_order[call.idx], outcome, timestamp)
    IN IF StopsLoop(call, outcome)
       THEN ReturnAll(rec, timestamp)
       ELSE StartEngine(rec, call.idx + 1)

\* the primary engine gave nothing and the call returns without the others
AfterPrimaryNoFallback(call, outcome, timestamp) ==
    IF ~outcome.raised /\ outcome.results # <<>>
    THEN ReturnPrimary(call, outcome, timestamp)
    ELSE ReturnAll(Recorded(call, "bing", outcome, timestamp), timestamp)

\* the fan-out leaves out the primary engine, which has just been searched
AfterPrimarySkipsPrimary(call, outcome, timestamp) ==
    IF ~outcome.raised /\ outcome.results # <<>>
    THEN ReturnPrimary(call, outcome, timestamp)
    ELSE StartEngine(
            [call EXCEPT !.fallback_on_failure = TRUE,
                         !.finished = Append(@, [engine |-> "bing",
                                                 outcome |-> outcome])],
            2)

\* search_with_fallback from the end of the primary search on
AfterPrimary(call, outcome, timestamp) ==
    IF ~outcome.raised /\ outcome.results # <<>>
    THEN ReturnPrimary(call, outcome, timestamp)
    ELSE StartEngine(
            [call EXCEPT !.fallback_on_failure = TRUE,
                         !.finished = Append(@, [engine |-> "bing",
                                                 outcome |-> outcome])],
            1)

CallSearchAllEngines(c, params, fallback_on_failure) ==
    /\ calls[c].pc = "idle"
    /\ budget > 0
    /\ budget' = budget - 1
    /\ calls' = [calls EXCEPT ![c] =
                   StartEngine(NewCall("search_all_engines", params,
                                       fallback_on_failure), 1)]
    /\ UNCHANGED <<now, reqs, tables, config, shutdown, tooling>>

CallSearchWithFallback(c, params) ==
    /\ calls[c].pc = "idle"
    /\ budget > 0
    /\ budget' = budget - 1
    /\ calls' = [calls EXCEPT ![c] =
                   StartPrimary(NewCall("search_with_fallback", params,
                                        TRUE))]
    /\ UNCHANGED <<now, reqs, tables, config, shutdown, tooling>>

\* the search of the primary engine returns or raises
PrimaryDone(c, outcome) ==
    /\ calls[c].pc = "primary"
    /\ calls' = [calls EXCEPT ![c] = AfterPrimary(@, outcome, now)]
    /\ UNCHANGED <<now, budget, reqs, tables, config, shutdown, tooling>>

\* the search of the engine at place idx returns or raises
EngineDone(c, engine, outcome) ==
    /\ calls[c].pc = "loop"
    /\ engine = engine_order[calls[c].idx]
    /\ calls' = [calls EXCEPT ![c] = AfterSearch(@, outcome, now)]
    /\ UNCHANGED <<now, budget, reqs, tables, config, shutdown, tooling>>

\* the caller has the result
TakeResult(c) ==
    /\ calls[c].pc \in {"done", "raised"}
    /\ calls' = [calls EXCEPT ![c] = IdleCall]
    /\ UNCHANGED <<now, budget, reqs, tables, config, shutdown, tooling>>

(***************************************************************************)
(* MultiSearchOrchestrator.close_all_engines, cut at `await engine.close()` *)
(***************************************************************************)
\* the exception of a close leaves close_all_engines
AfterCloseUncaught(sd, raised) ==
    IF raised THEN [sd EXCEPT !.pc = "raised"]
    ELSE IF sd.idx = Len(engines) THEN [sd EXCEPT !.pc = "done"]
    ELSE [sd EXCEPT !.idx = @ + 1,
                    !.attempted = Append(@, engines[sd.idx + 1])]

\* the loop from the end of one close on: an exception is logged
AfterClose(sd, raised) ==
    IF sd.idx = Len(engines) THEN [sd EXCEPT !.pc = "done"]
    ELSE [sd EXCEPT !.idx = @ + 1,
                    !.attempted = Append(@, engines[sd.idx + 1])]

CallCloseAllEngines ==
    /\ shutdown.pc = "idle"
    /\ shutdown' = [pc |-> "closing", idx |-> 1, attempted |-> <<engines[1]>>,
                    failures |-> 0]
    /\ UNCHANGED <<now, budget, reqs, tables, config, calls, tooling>>

\* the close of the engine at place idx returns or raises
CloseDone(raised) ==
    /\ shutdown.pc = "closing"
    /\ shutdown' = AfterClose([shutdown EXCEPT !.failures =
                                  IF raised THEN @ + 1 ELSE @], raised)
    /\ UNCHANGED <<now, budget, reqs, tables, config, calls, tooling>>

(***************************************************************************)
(* multi_search (src/tools/multi_search.py), cut at its awaits.  The ctx   *)
(* calls that follow one another with no statement in between are one      *)
(* step: they all return, or one of them raises.                           *)
(***************************************************************************)
ToolSlots == DOMAIN msearch

\* the arguments that multi_search hands to the orchestrator
ToolParams == [query |-> "q", extract_content |-> TRUE,
               follow_links |-> TRUE, max_depth |-> 2]

\* what a search can do when it is made for a tool: it raises, it returns
\* nothing, it returns MaxResults results
ToolOutcomes(engine) ==
    {SearchRaises("timeout"), SearchReturns(engine, 0),
     SearchReturns(engine, MaxResults)}
ToolOutcomesOf ==
    [engine \in {"bing", "duckduckgo", "yahoo"} |-> ToolOutcomes(engine)]

\* get_orchestrator: the instance is made by the first call
get_orchestrator == IF orchestrator = 0 THEN 1 ELSE orchestrator

\* a new call of multi_search; `notified` observes its ctx calls
NewSearch(use_fallback, ctx, params) ==
    [pc |-> "entered", use_fallback |-> use_fallback, ctx |-> ctx,
     params |-> params,
     instance |-> 0, results |-> [status |-> "none"],
     notified |-> <<>>, ret |-> [status |-> "none"]]

\* `await orchestrator.search_with_fallback(...)` or, without use_fallback,
\* `await orchestrator.search_all_engines(...)`, which is called without
\* fallback_on_failure and so with its default
OrchestratorCall(use_fallback, params) ==
    IF use_fallback
    THEN StartPrimary(NewCall("search_with_fallback", params, TRUE))
    ELSE StartEngine(NewCall("search_all_engines", params, TRUE), 1)

\* the exception of the try block leaves multi_search
ExceptPropagates(rec, text) == [rec EXCEPT !.pc = "raised"]

\* the except clause: ctx.error is awaited when there is a ctx, and the
\* dict of the failure is returned
Except(rec, text) ==
    IF rec.ctx
    THEN [rec EXCEPT !.pc = "error",
                     !.ret = [error |-> <<"Multi-engine search failed: ",
                                          text>>,
                              status |-> "failed", timestamp |-> now]]
    ELSE [rec EXCEPT !.pc = "returned",
                     !.ret = [error |-> <<"Multi-engine search failed: ",
                                          text>>,
                              status |-> "failed", timestamp |-> now]]

\* the f-string of the last ctx.info reads two fields of the summary
SummaryRead(results) ==
    /\ "summary" \in DOMAIN results
    /\ {"total_results", "successful_engines"} \subseteq DOMAIN results.summary

\* multi_search is entered: with a ctx it awaits ctx.info and
\* ctx.report_progress(0.1), without one it goes on to the orchestrator
EnterMultiSearch(m, use_fallback, ctx, params) ==
    IF ctx
    THEN /\ msearch' = [msearch EXCEPT ![m] =
                          [NewSearch(use_fallback, ctx, params) EXCEPT
                              !.pc = "start"]]
         /\ UNCHANGED <<calls, orchestrator>>
    ELSE /\ msearch' = [msearch EXCEPT ![m] =
                          [NewSearch(use_fallback, ctx, params) EXCEPT
                              !.pc = "search",
                              !.instance = get_orchestrator]]
         /\ orchestrator' = get_orchestrator
         /\ calls' = [calls EXCEPT ![m] =
                         OrchestratorCall(use_fallback, params)]

\* the tool is called
CallMultiSearch(m, use_fallback, ctx) ==
    /\ msearch[m].pc = "idle"
    /\ \A q \in ToolSlots : q < m => msearch[q].pc # "idle"
    /\ budget > 0
    /\ budget' = budget - 1
    /\ EnterMultiSearch(m, use_fallback, ctx, ToolParams)
    /\ UNCHANGED <<now, reqs, tables, config, shutdown, gsearch, pool>>

\* the ctx calls that multi_search is waiting for return, or one raises
CtxDone(m, raised) ==
    /\ msearch[m].pc \in {"start", "progress", "finish", "error"}
    /\ LET rec == [msearch[m] EXCEPT
                      !.notified = Append(@, [at |-> msearch[m].pc,
                                              raised |-> raised])]
       IN CASE rec.pc = "start" ->
                 /\ msearch' = [msearch EXCEPT ![m] =
                       IF raised THEN Except(rec, "ctx")
                       ELSE [rec EXCEPT !.pc = "progress",
                                        !.instance = get_orchestrator]]
                 /\ orchestrator' =
                       IF raised THEN orchestrator ELSE get_orchestrator
                 /\ UNCHANGED calls
            [] rec.pc = "progress" ->
                 /\ msearch' = [msearch EXCEPT ![m] =
                       IF raised THEN Except(rec, "ctx")
                       ELSE [rec EXCEPT !.pc = "search"]]
                 /\ calls' = IF raised THEN calls
                             ELSE [calls EXCEPT ![m] =
                                      OrchestratorCall(rec.use_fallback,
                                                       rec.params)]
                 /\ UNCHANGED orchestrator
            [] rec.pc = "finish" ->
                 /\ msearch' = [msearch EXCEPT ![m] =
                       IF raised THEN Except(rec, "ctx")
                       ELSE IF SummaryRead(rec.results)
                       THEN [rec EXCEPT !.pc = "returned",
                                        !.ret = rec.results]
                       ELSE Except(rec, "KeyError")]
                 /\ UNCHANGED <<calls, orchestrator>>
            [] rec.pc = "error" ->
                 /\ msearch' = [msearch EXCEPT ![m] =
                       IF raised THEN [rec EXCEPT !.pc = "raised"]
                       ELSE [rec EXCEPT !.pc = "returned"]]
                 /\ UNCHANGED <<calls, orchestrator>>
    /\ UNCHANGED <<now, budget, reqs, tables, config, shutdown, gsearch, pool>>

\* the call of the orchestrator has returned (or raised): with a ctx,
\* multi_search awaits ctx.report_progress(1.0) and, the summary read,
\* ctx.info (the "finish" step); without one it returns the results
SearchDone(m) ==
    /\ msearch[m].pc = "search"
    /\ calls[m].pc \in {"done", "raised"}
    /\ msearch' = [msearch EXCEPT ![m] =
          IF calls[m].pc = "raised" THEN Except(@, "search")
          ELSE IF ~@.ctx
          THEN [@ EXCEPT !.pc = "returned", !.results = calls[m].ret,
                         !.ret = calls[m].ret]
          ELSE [@ EXCEPT !.pc = "finish", !.results = calls[m].ret]]
    /\ calls' = [calls EXCEPT ![m] = IdleCall]
    /\ UNCHANGED <<now, budget, reqs, tables, config, shutdown,
                   orchestrator, gsearch, pool>>

\* the caller of the tool has the result, or the exception
ToolDone(m) ==
    /\ msearch[m].pc \in {"returned", "raised"}
    /\ gsearch.pc = "idle"
    /\ msearch' = [msearch EXCEPT ![m] = IdleTool]
    /\ UNCHANGED <<now, budget, reqs, tables, config, calls, shutdown,
                   orchestrator, gsearch, pool>>

(***************************************************************************)
(* The pooled HTTP clients (src/utils/clients.py).  A client is the number *)
(* of its creation, 0 is None.  close_http_clients is cut at its           *)
(* `await _http_client.aclose()`; a client counts as closed as soon as its *)
(* aclose has been called.  `log` observes the calls.                      *)
(***************************************************************************)
\* get_http_client, which has no await: the client of the slot, made now
\* if the slot is empty
GetHttpClient ==
    /\ budget > 0
    /\ budget' = budget - 1
    /\ LET fresh == pool.http_client = 0
           client == IF fresh THEN pool.made + 1 ELSE pool.http_client
       IN pool' = [pool EXCEPT
                      !.http_client = client,
                      !.made = IF fresh THEN @ + 1 ELSE @,
                      !.log = Append(@, [op |-> "get", client |-> client,
                                         fresh |-> fresh,
                                         closed |-> client \in pool.closed])]
    /\ UNCHANGED <<now, reqs, tables, config, calls, shutdown, orchestrator,
                   msearch, gsearch>>

\* get_cloudscraper_session
GetCloudscraperSession ==
    /\ budget > 0
    /\ budget' = budget - 1
    /\ LET fresh == pool.cloudscraper_session = 0
           session == IF fresh THEN pool.sessions + 1
                      ELSE pool.cloudscraper_session
       IN pool' = [pool EXCEPT
                      !.cloudscraper_session = session,
                      !.sessions = IF fresh THEN @ + 1 ELSE @,
                      !.log = Append(@, [op |-> "session", client |-> session,
                                         fresh |-> fresh, closed |-> FALSE])]
    /\ UNCHANGED <<now, reqs, tables, config, calls, shutdown, orchestrator,
                   msearch, gsearch>>

\* close_http_clients is called: with a client in the slot it awaits the
\* aclose of the client; with none it empties the other slot and returns
CallCloseHttpClients ==
    /\ budget > 0
    /\ budget' = budget - 1
    /\ pool' =
          IF pool.http_client # 0
          THEN [pool EXCEPT
                   !.closed = @ \cup {pool.http_client},
                   !.closers = Append(@, pool.http_client),
                   !.log = Append(@, [op |-> "close", client |-> pool.http_client,
                                      fresh |-> FALSE, closed |-> TRUE])]
          ELSE [pool EXCEPT
                   !.cloudscraper_session = 0,
                   !.log = Append(@, [op |-> "closed", client |-> 0,
                                      fresh |-> FALSE, closed |-> FALSE])]
    /\ UNCHANGED <<now, reqs, tables, config, calls, shutdown, orchestrator,
                   msearch, gsearch>>

\* the statements after the await: they run when aclose has returned; an
\* exception of aclose leaves close_http_clients with the slots as they are
AfterAclose(p, raised) ==
    IF raised THEN p
    ELSE [p EXCEPT !.http_client = 0, !.cloudscraper_session = 0]

\* the aclose awaited by the i-th suspended call of close_http_clients
\* returns or raises
AcloseDone(i, raised) ==
    /\ i \in 1..Len(pool.closers)
    /\ pool' = [AfterAclose(pool, raised) EXCEPT
                   !.closers = [j \in 1..(Len(@) - 1) |->
                                   IF j < i THEN @[j] ELSE @[j + 1]],
                   !.log = Append(@, [op |-> IF raised THEN "raised"
                                             ELSE "closed",
                                      client |-> pool.closers[i],
                                      fresh |-> FALSE, closed |-> TRUE])]
    /\ UNCHANGED <<now, budget, reqs, tables, config, calls, shutdown,
                   orchestrator, msearch, gsearch>>

(***************************************************************************)
(* google_search (src/tools/search.py), cut at its awaits.  A label       *)
(* "n_..." is a run of ctx calls with no statement in between (they all    *)
(* return, or one raises); "tier1", "bing", "tier3" and "rival" are the    *)
(* awaits of the four search tiers; "ret_..." are the return statements.   *)
(* Without a ctx the ctx calls are skipped.                                *)
(***************************************************************************)
CtxLabels ==
    {"n_start", "n_direct", "n_found", "n_complete", "n_none", "n_failed",
     "n_bing", "n_bing_found", "n_bing_none", "n_bing_failed", "n_multi",
     "n_multi_done", "n_multi_failed", "n_rival", "n_rival_found",
     "n_rival_none", "n_rival_failed", "n_all_failed", "n_disabled",
     "n_error"}

\* the arguments that google_search hands to multi_search
GoogleParams == [query |-> "q", extract_content |-> TRUE,
                 follow_links |-> FALSE, max_depth |-> 1]

\* rival_retrieve raises, or returns nothing, the text of a failure, or
\* the content
RivalFailed == "Failed to retrieve content from q"
RivalOutcomes ==
    {[raised |-> TRUE, content |-> ""], [raised |-> FALSE, content |-> ""],
     [raised |-> FALSE, content |-> RivalFailed],
     [raised |-> FALSE, content |-> "content"]}

\* where the code goes on when the ctx calls of a label have returned;
\* after the Bing tier comes `if use_multi_engine:`
OkNext(rec, label) ==
    CASE label = "n_start" -> "n_direct"
      [] label = "n_direct" -> "tier1"
      [] label = "n_found" -> "n_complete"
      [] label = "n_complete" -> "ret_multi"
      [] label = "n_none" -> "ret_partial"
      [] label = "n_failed" -> "n_bing"
      [] label = "n_bing" -> "bing"
      [] label = "n_bing_found" -> "ret_bing"
      [] label \in {"n_bing_none", "n_bing_failed"} ->
            IF rec.use_multi_engine THEN "n_multi" ELSE "n_disabled"
      [] label = "n_multi" -> "tier3"
      [] label = "n_multi_done" -> "ret_fallback"
      [] label = "n_multi_failed" -> "n_rival"
      [] label = "n_rival" -> "rival"
      [] label = "n_rival_found" -> "ret_rival"
      [] label = "n_rival_none" -> "n_all_failed"
      [] label = "n_rival_failed" -> "n_all_failed"
      [] label = "n_all_failed" -> "ret_all_failed"
      [] label = "n_disabled" -> "ret_disabled"
      [] label = "n_error" -> "ret_error"

\* the except clause that catches an exception raised at a label: the
\* clause of the innermost enclosing try, and none for the last ctx.error
Handler(label) ==
    CASE label \in {"n_direct", "tier1", "n_found", "n_complete", "n_none"}
            -> "n_failed"
      [] label \in {"n_bing", "bing", "n_bing_found", "n_bing_none"}
            -> "n_bing_failed"
      [] label \in {"n_multi", "tier3", "n_multi_done"} -> "n_multi_failed"
      [] label \in {"n_rival", "rival", "n_rival_found", "n_rival_none"}
            -> "n_rival_failed"
      [] label \in {"n_start", "n_failed", "n_bing_failed", "n_multi_failed",
                    "n_rival_failed", "n_all_failed", "n_disabled"}
            -> "n_error"
      [] label = "n_error" -> "raised"

\* the result dicts of the engines that succeeded, in the order of the dict
RECURSIVE DictsFrom(_, _)
DictsFrom(table, i) ==
    IF i > Len(engine_order) THEN <<>>
    ELSE LET engine == engine_order[i]
         IN (IF engine \in DOMAIN table
             THEN (IF table[engine].status = "success"
                      /\ table[engine].results # <<>>
                   THEN table[engine].results ELSE <<>>)
             ELSE <<>>) \o DictsFrom(table, i + 1)

ResultDicts(results) ==
    IF "results" \in DOMAIN results THEN DictsFrom(results.results, 1)
    ELSE <<>>

\* results.get('summary', {}).get('total_results', 0)
TotalResults(results) ==
    IF "summary" \in DOMAIN results
    THEN (IF "total_results" \in DOMAIN results.summary
          THEN results.summary.total_results ELSE 0)
    ELSE 0

\* the dict of each return statement; after the except clause of the
\* rival tier its name rival_error is unbound again, so the text of the
\* last error always ends in 'not attempted'
RetOf(rec, label) ==
    CASE label = "ret_multi" ->
            [status |-> "success", method |-> "multi_engine_search",
             results |-> ResultDicts(rec.results), error |-> <<>>]
      [] label = "ret_partial" ->
            [status |-> "partial", method |-> "multi_engine_search",
             results |-> <<>>, error |-> <<>>]
      [] label = "ret_bing" ->
            [status |-> "success", method |-> "direct_bing_fallback",
             results |-> ToDicts(rec.bing_results), error |-> <<>>]
      [] label = "ret_fallback" ->
            [status |-> "success", method |-> "multi_engine_fallback",
             results |-> rec.fallback_results, error |-> <<>>]
      [] label = "ret_rival" ->
            [status |-> "success", method |-> "rival_retrieve_fallback",
             results |-> <<[content |-> rec.rival_results,
                            source |-> "rival_retrieve"]>>,
             error |-> <<>>]
      [] label = "ret_all_failed" ->
            [status |-> "error", method |-> "none", results |-> <<>>,
             error |-> <<"All search methods failed. Direct: ", rec.e,
                         ", Multi-engine: ", rec.fallback_error,
                         ", Rival-retrieve: ", "not attempted">>]
      [] label = "ret_disabled" ->
            [status |-> "error", method |-> "none", results |-> <<>>,
             error |-> <<"Direct Google search failed and multi-engine fallback is disabled: ",
                         rec.e>>]
      [] label = "ret_error" ->
            [status |-> "error", method |-> "none", results |-> <<>>,
             error |-> <<rec.e>>]

\* the call goes on to a label: it is suspended there, or (a ctx label
\* without a ctx) goes on from it, or returns, or lets the exception out
RECURSIVE Reach(_, _)
Reach(rec, label) ==
    IF label \in CtxLabels
    THEN (IF rec.ctx THEN [rec EXCEPT !.pc = label]
          ELSE Reach(rec, OkNext(rec, label)))
    ELSE IF label \in {"tier1", "bing", "tier3", "rival"}
    THEN [rec EXCEPT !.pc = label,
                     !.tiers = Append(@, [tier |-> label,
                                          outcome |-> "running"])]
    ELSE IF label = "raised" THEN [rec EXCEPT !.pc = "raised"]
    ELSE [rec EXCEPT !.pc = "returned", !.ret = RetOf(rec, label)]

\* an exception raised at the label where the call is: the except clause
\* binds it (e, fallback_error), and the results of the tier are dropped
Caught(rec, text) ==
    LET handler == Handler(rec.pc)
    IN Reach([rec EXCEPT
                 !.e = IF handler \in {"n_failed", "n_error"} THEN text
                       ELSE @,
                 !.fallback_error = IF handler = "n_multi_failed" THEN text
                                    ELSE @,
                 !.results = IF handler = "n_failed"
                             THEN [status |-> "none"] ELSE @],
             handler)

\* the outcome of the tier that has just ended
Ended(rec, outcome) ==
    [rec EXCEPT !.tiers = [@ EXCEPT ![Len(@)].outcome = outcome]]

\* `await multi_search(...)` begins when the call has reached it
AwaitMultiSearch(rec) ==
    IF rec.pc \in {"tier1", "tier3"}
    THEN EnterMultiSearch(1, TRUE, rec.ctx, GoogleParams)
    ELSE UNCHANGED <<msearch, calls, orchestrator>>

\* a new call of google_search; `tiers` observes the tiers that it tries
CallGoogleSearch(use_multi_engine, ctx) ==
    /\ gsearch.pc = "idle"
    /\ msearch[1].pc = "idle"
    /\ budget > 0
    /\ budget' = budget - 1
    /\ gsearch' =
          Reach([pc |-> "entered", use_multi_engine |-> use_multi_engine,
                 ctx |-> ctx, results |-> [status |-> "none"],
                 bing_results |-> <<>>,
                 fallback_results |-> [status |-> "none"],
                 rival_results |-> "", e |-> "", fallback_error |-> "",
                 tiers |-> <<>>, ret |-> [status |-> "none"]],
                "n_start")
    /\ AwaitMultiSearch(gsearch')
    /\ UNCHANGED <<now, reqs, tables, config, shutdown, pool>>

\* the ctx calls that google_search is waiting for return, or one raises
GoogleCtxDone(raised) ==
    /\ gsearch.pc \in CtxLabels
    /\ gsearch' = IF raised THEN Caught(gsearch, "ctx")
                  ELSE Reach(gsearch, OkNext(gsearch, gsearch.pc))
    /\ AwaitMultiSearch(gsearch')
    /\ UNCHANGED <<now, budget, reqs, tables, config, shutdown, pool>>

\* multi_search has returned, or raised
MultiSearchDone ==
    /\ gsearch.pc \in {"tier1", "tier3"}
    /\ msearch[1].pc \in {"returned", "raised"}
    /\ LET ret == msearch[1].ret
           outcome == IF msearch[1].pc = "raised" THEN "raised"
                      ELSE IF "summary" \notin DOMAIN ret THEN "error_value"
                      ELSE IF TotalResults(ret) > 0 THEN "results"
                      ELSE "nothing"
           rec == Ended(gsearch, outcome)
       IN gsearch' =
            IF msearch[1].pc = "raised" THEN Caught(rec, "multi_search")
            ELSE IF rec.pc = "tier1"
            THEN (IF TotalResults(ret) > 0
                  THEN Reach([rec EXCEPT !.results = ret], "n_found")
                  ELSE Reach([rec EXCEPT !.results = ret], "n_none"))
            ELSE Reach([rec EXCEPT !.fallback_results = ret], "n_multi_done")
    /\ msearch' = [msearch EXCEPT ![1] = IdleTool]
    /\ UNCHANGED <<now, budget, reqs, tables, config, calls, shutdown,
                   orchestrator, pool>>

\* the search of the new BingSearchEngine has returned, or raised
BingDone(outcome) ==
    /\ gsearch.pc = "bing"
    /\ LET rec == Ended(gsearch, IF outcome.raised THEN "raised"
                                 ELSE IF outcome.results # <<>> THEN "results"
                                 ELSE "nothing")
       IN gsearch' =
            IF outcome.raised THEN Caught(rec, outcome.error)
            ELSE IF outcome.results # <<>>
            THEN Reach([rec EXCEPT !.bing_results = outcome.results],
                       "n_bing_found")
            ELSE Reach(rec, "n_bing_none")
    /\ UNCHANGED <<now, budget, reqs, tables, config, calls, shutdown,
                   orchestrator, msearch, pool>>

\* rival_retrieve has returned, or raised
RivalDone(outcome) ==
    /\ gsearch.pc = "rival"
    /\ LET found == ~outcome.raised /\ outcome.content # ""
                       /\ outcome.content # RivalFailed
           rec == Ended(gsearch, IF outcome.raised THEN "raised"
                                 ELSE IF found THEN "results"
                                 ELSE IF outcome.content = "" THEN "nothing"
                                 ELSE "error_value")
       IN gsearch' =
            IF outcome.raised THEN Caught(rec, "rival_retrieve")
            ELSE IF found
            THEN Reach([rec EXCEPT !.rival_results = outcome.content],
                       "n_rival_found")
            ELSE Reach(rec, "n_rival_none")
    /\ UNCHANGED <<now, budget, reqs, tables, config, calls, shutdown,
                   orchestrator, msearch, pool>>

\* the caller of the tool has the result, or the exception
GoogleDone ==
    /\ gsearch.pc \in {"returned", "raised"}
    /\ gsearch' = IdleTool
    /\ UNCHANGED <<now, budget, reqs, tables, config, calls, shutdown,
                   orchestrator, msearch, pool>>

(***************************************************************************)
(* Specifications                                                          *)
(***************************************************************************)
\* every step of a request through the stages
Stages ==
    \/ \E r \in Slots : LoggingEnter(r)
    \/ \E r \in Slots : TimingEnter(r)
    \/ \E r \in Slots : PerformanceEnter(r)
    \/ \E r \in Slots : RateLimitingOnRequest(r)
    \/ \E r \in Slots : ErrorHandlingEnter(r)
    \/ \E r \in Slots : SecurityOnRequest(r)
    \/ \E r \in Slots : SecurityExit(r)
    \/ \E r \in Slots : ErrorHandlingExit(r)
    \/ \E r \in Slots : RateLimitingExit(r)
    \/ \E r \in Slots : PerformanceExit(r)
    \/ \E r \in Slots : TimingExit(r)
    \/ \E r \in Slots : LoggingExit(r)
    \/ \E r \in Slots : Retire(r)

\* The pipeline as register_middleware builds it: requests of one client,
\* every method, a harmless and a suspicious payload.
Next ==
    \/ \E r \in Slots, method \in Methods,
          message \in {PayloadHello, PayloadDropUpper} :
            Dispatch(r, method, "c1", message)
    \/ \E d \in TickSteps : Tick(d)
    \/ \E r \in Slots : CoreReturns(r)
    \/ \E r \in Slots, e \in CoreErrors : CoreRaises(r, e)
    \/ Stages

Spec == Init /\ [][Next]_vars

\* The rate limiter under load: harmless requests for one method, sent by
\* every kind of client, one more request than in Spec.
InitRate ==
    /\ now = 0
    /\ budget = MaxRequests + 1
    /\ reqs = [r \in {1} |-> Idle]
    /\ client_requests = EmptyTable
    /\ eh_error_counts = EmptyTable
    /\ operation_times = EmptyTable
    /\ operation_counts = EmptyTable
    /\ pm_error_counts = EmptyTable
    /\ max_requests_per_minute \in 1..MaxLimit
    /\ per_client = TRUE
    /\ transform_errors = TRUE
    /\ block_suspicious_requests = TRUE
    /\ decisions = <<>>
    /\ ENVIRONMENT = "production"
    /\ calls = [c \in {1} |-> IdleCall]
    /\ shutdown = NotClosing
    /\ InitTooling

NextRate ==
    \/ \E r \in Slots, ctx \in Contexts :
            Dispatch(r, ToolsCall, ctx, PayloadHello)
    \/ \E d \in TickSteps : Tick(d)
    \/ \E r \in Slots : CoreReturns(r)
    \/ \E r \in Slots : CoreRaises(r, Error("ValueError", <<"boom">>))
    \/ Stages

SpecRate == InitRate /\ [][NextRate]_vars

\* The tables of the stages: every method, harmless requests of one client,
\* a core handler that returns or raises a generic error.
NextTables ==
    \/ \E r \in Slots, method \in Methods :
            Dispatch(r, method, "c1", PayloadHello)
    \/ \E d \in TickSteps : Tick(d)
    \/ \E r \in Slots : CoreReturns(r)
    \/ \E r \in Slots : CoreRaises(r, Error("ValueError", <<"boom">>))
    \/ Stages

SpecTables == Init /\ [][NextTables]_vars

\* The rate limiter per client or global: requests of two clients and
\* requests without a client context.
InitClients ==
    /\ now = 0
    /\ budget = MaxRequests
    /\ reqs = [r \in {1} |-> Idle]
    /\ client_requests = EmptyTable
    /\ eh_error_counts = EmptyTable
    /\ operation_times = EmptyTable
    /\ operation_counts = EmptyTable
    /\ pm_error_counts = EmptyTable
    /\ max_requests_per_minute \in 1..MaxLimit
    /\ per_client \in BOOLEAN
    /\ transform_errors = TRUE
    /\ block_suspicious_requests = TRUE
    /\ decisions = <<>>
    /\ ENVIRONMENT = "production"
    /\ calls = [c \in {1} |-> IdleCall]
    /\ shutdown = NotClosing
    /\ InitTooling

\* "None" is a client context that carries no client id
NextClients ==
    \/ \E r \in Slots, ctx \in Contexts \cup {"None"} :
            Dispatch(r, ToolsCall, ctx, PayloadHello)
    \/ \E d \in TickSteps : Tick(d)
    \/ \E r \in Slots : CoreReturns(r)
    \/ \E r \in Slots : CoreRaises(r, Error("ValueError", <<"boom">>))
    \/ Stages

SpecClients == InitClients /\ [][NextClients]_vars

\* Concurrent requests: every slot is used once, and the requests are
\* interleaved at their suspension points (each action runs from one await
\* of a request to its next).  The clock stands still: all the requests fall
\* into one window of the rate limiter.
InitConcurrent ==
    /\ now = 0
    /\ budget = MaxRequests
    /\ reqs = [r \in 1..MaxRequests |-> Idle]
    /\ client_requests = EmptyTable
    /\ eh_error_counts = EmptyTable
    /\ operation_times = EmptyTable
    /\ operation_counts = EmptyTable
    /\ pm_error_counts = EmptyTable
    /\ max_requests_per_minute \in 1..MaxLimit
    /\ per_client = TRUE
    /\ transform_errors = TRUE
    /\ block_suspicious_requests = TRUE
    /\ decisions = <<>>
    /\ ENVIRONMENT = "production"
    /\ calls = [c \in {1} |-> IdleCall]
    /\ shutdown = NotClosing
    /\ InitTooling

NextConcurrent ==
    \/ \E r \in Slots, message \in {PayloadHello, PayloadDropUpper} :
            Dispatch(r, ToolsCall, "c1", message)
    \/ \E r \in Slots : CoreReturns(r)
    \/ \E r \in Slots : CoreRaises(r, Error("ValueError", <<"boom">>))
    \/ \E r \in Slots : LoggingEnter(r)
    \/ \E r \in Slots : TimingEnter(r)
    \/ \E r \in Slots : PerformanceEnter(r)
    \/ \E r \in Slots : RateLimitingOnRequest(r)
    \/ \E r \in Slots : ErrorHandlingEnter(r)
    \/ \E r \in Slots : SecurityOnRequest(r)
    \/ \E r \in Slots : SecurityExit(r)
    \/ \E r \in Slots : ErrorHandlingExit(r)
    \/ \E r \in Slots : RateLimitingExit(r)
    \/ \E r \in Slots : PerformanceExit(r)
    \/ \E r \in Slots : TimingExit(r)
    \/ \E r \in Slots : LoggingExit(r)

SpecConcurrent == InitConcurrent /\ [][NextConcurrent]_vars

\* The pipeline after 100 successful tools/call requests of client c2, the
\* last of them at this instant (the clock is counted from here); the
\* first three took 90, 60 and 30 seconds, the others no time.
InitLoaded ==
    /\ now = 0
    /\ budget = MaxRequests
    /\ reqs = [r \in {1} |-> Idle]
    /\ client_requests = [c \in {"c2"} |-> <<0>>]
    /\ eh_error_counts = EmptyTable
    /\ operation_times =
          [m \in {ToolsCall} |->
              [i \in 1..SampleCap |-> IF i <= 3 THEN 30 * (4 - i) ELSE 0]]
    /\ operation_counts = [m \in {ToolsCall} |-> SampleCap]
    /\ pm_error_counts = EmptyTable
    /\ max_requests_per_minute \in 1..MaxLimit
    /\ per_client = TRUE
    /\ transform_errors = TRUE
    /\ block_suspicious_requests = TRUE
    /\ decisions = <<>>
    /\ ENVIRONMENT = "production"
    /\ calls = [c \in {1} |-> IdleCall]
    /\ shutdown = NotClosing
    /\ InitTooling

SpecLoaded == InitLoaded /\ [][Next]_vars

\* The stages as their constructors allow them: blocking and error
\* transformation on or off; every payload, one method, one client.
InitConfig ==
    /\ now = 0
    /\ budget = MaxRequests
    /\ reqs = [r \in {1} |-> Idle]
    /\ client_requests = EmptyTable
    /\ eh_error_counts = EmptyTable
    /\ operation_times = EmptyTable
    /\ operation_counts = EmptyTable
    /\ pm_error_counts = EmptyTable
    /\ max_requests_per_minute \in 1..MaxLimit
    /\ per_client = TRUE
    /\ transform_errors \in BOOLEAN
    /\ block_suspicious_requests \in BOOLEAN
    /\ decisions = <<>>
    /\ ENVIRONMENT = "production"
    /\ calls = [c \in {1} |-> IdleCall]
    /\ shutdown = NotClosing
    /\ InitTooling

NextConfig ==
    \/ \E r \in Slots, message \in Payloads :
            Dispatch(r, ToolsCall, "c1", message)
    \/ \E d \in TickSteps : Tick(d)
    \/ \E r \in Slots : CoreReturns(r)
    \/ \E r \in Slots, e \in CoreErrors : CoreRaises(r, e)
    \/ Stages

SpecConfig == InitConfig /\ [][NextConfig]_vars

\* The orchestrator alone: one call at a time, every outcome of every
\* search and of every close.  The clock stands still: the timestamps of
\* the result are all the starting time.
InitSearch ==
    /\ now = 0
    /\ budget = MaxRequests
    /\ reqs = [r \in {1} |-> Idle]
    /\ client_requests = EmptyTable
    /\ eh_error_counts = EmptyTable
    /\ operation_times = EmptyTable
    /\ operation_counts = EmptyTable
    /\ pm_error_counts = EmptyTable
    /\ max_requests_per_minute \in 1..MaxLimit
    /\ per_client = TRUE
    /\ transform_errors = TRUE
    /\ block_suspicious_requests = TRUE
    /\ decisions = <<>>
    /\ ENVIRONMENT = "production"
    /\ calls = [c \in {1} |-> IdleCall]
    /\ shutdown = NotClosing
    /\ InitTooling

NextSearch ==
    \/ \E c \in CallSlots, params \in Params, fallback_on_failure \in BOOLEAN :
            CallSearchAllEngines(c, params, fallback_on_failure)
    \/ \E c \in CallSlots, params \in Params :
            CallSearchWithFallback(c, params)
    \/ \E c \in CallSlots, outcome \in SearchOutcomes("bing") :
            PrimaryDone(c, outcome)
    \/ \E c \in CallSlots, engine \in DOMAIN SearchOutcomesOf :
            \E outcome \in SearchOutcomesOf[engine] :
                EngineDone(c, engine, outcome)
    \/ \E c \in CallSlots : TakeResult(c)
    \/ CallCloseAllEngines
    \/ \E raised \in BOOLEAN : CloseDone(raised)

SpecSearch == InitSearch /\ [][NextSearch]_vars

\* The server started in any mode: ENVIRONMENT is read once, before the
\* stages are registered.
InitServer ==
    /\ now = 0
    /\ budget = MaxRequests
    /\ reqs = [r \in {1} |-> Idle]
    /\ client_requests = EmptyTable
    /\ eh_error_counts = EmptyTable
    /\ operation_times = EmptyTable
    /\ operation_counts = EmptyTable
    /\ pm_error_counts = EmptyTable
    /\ max_requests_per_minute \in 1..MaxLimit
    /\ per_client = TRUE
    /\ transform_errors = TRUE
    /\ block_suspicious_requests = TRUE
    /\ decisions = <<>>
    /\ ENVIRONMENT \in Environments
    /\ calls = [c \in {1} |-> IdleCall]
    /\ shutdown = NotClosing
    /\ InitTooling

SpecServer == InitServer /\ [][Next]_vars

\* A client that keeps sending while the clock advances: it sends again at
\* once while it is admitted, and retries after a rejection as soon as the
\* clock has moved.  LiveRequests is enough for every instant of the clock.
LiveRequests == (MaxLimit + 2) * (MaxTime \div 30 + 1)

InitLive ==
    /\ now = 0
    /\ budget = LiveRequests
    /\ reqs = [r \in {1} |-> Idle]
    /\ client_requests = EmptyTable
    /\ eh_error_counts = EmptyTable
    /\ operation_times = EmptyTable
    /\ operation_counts = EmptyTable
    /\ pm_error_counts = EmptyTable
    /\ max_requests_per_minute \in 1..MaxLimit
    /\ per_client = TRUE
    /\ transform_errors = TRUE
    /\ block_suspicious_requests = TRUE
    /\ decisions = <<>>
    /\ ENVIRONMENT = "production"
    /\ calls = [c \in {1} |-> IdleCall]
    /\ shutdown = NotClosing
    /\ InitTooling

ClientSends(r) ==
    /\ IF decisions = <<>> THEN TRUE
       ELSE \/ decisions[Len(decisions)].admitted
            \/ decisions[Len(decisions)].time < now
    /\ Dispatch(r, ToolsCall, "c1", PayloadHello)

NextLive ==
    \/ \E r \in Slots : ClientSends(r)
    \/ \E d \in TickSteps : Tick(d)
    \/ \E r \in Slots : CoreReturns(r)
    \/ \E r \in Slots : CoreRaises(r, Error("ValueError", <<"boom">>))
    \/ Stages

\* the event loop runs every request that can take a step, the core
\* handler comes back, the clock advances and the client sends again
Fairness ==
    /\ WF_vars(Stages)
    /\ WF_vars(\E r \in Slots :
                  \/ CoreReturns(r)
                  \/ CoreRaises(r, Error("ValueError", <<"boom">>)))
    /\ WF_vars(\E d \in TickSteps : Tick(d))
    /\ WF_vars(\E r \in Slots : ClientSends(r))

SpecLive == InitLive /\ [][NextLive]_vars /\ Fairness

\* The multi_search tool, one call at a time: with and without a ctx, with
\* and without use_fallback, every ctx step returning or raising.  The
\* clock stands still.
NextTool ==
    \/ \E m \in ToolSlots, use_fallback \in BOOLEAN, ctx \in BOOLEAN :
            CallMultiSearch(m, use_fallback, ctx)
    \/ \E m \in ToolSlots, raised \in BOOLEAN : CtxDone(m, raised)
    \/ \E c \in CallSlots, outcome \in ToolOutcomes("bing") :
            PrimaryDone(c, outcome)
    \/ \E c \in CallSlots, engine \in DOMAIN ToolOutcomesOf :
            \E outcome \in ToolOutcomesOf[engine] :
                EngineDone(c, engine, outcome)
    \/ \E m \in ToolSlots : SearchDone(m)
    \/ \E m \in ToolSlots : ToolDone(m)

SpecTool == Init /\ [][NextTool]_vars

\* Concurrent calls of the multi_search tool, made without a ctx and
\* interleaved at their awaits: they share the orchestrator that
\* get_orchestrator has made, and with it the adapters.
InitShared ==
    /\ now = 0
    /\ budget = MaxRequests
    /\ reqs = [r \in {1} |-> Idle]
    /\ client_requests = EmptyTable
    /\ eh_error_counts = EmptyTable
    /\ operation_times = EmptyTable
    /\ operation_counts = EmptyTable
    /\ pm_error_counts = EmptyTable
    /\ max_requests_per_minute = MaxLimit
    /\ per_client = TRUE
    /\ transform_errors = TRUE
    /\ block_suspicious_requests = TRUE
    /\ decisions = <<>>
    /\ ENVIRONMENT = "production"
    /\ calls = [c \in 1..MaxRequests |-> IdleCall]
    /\ shutdown = NotClosing
    /\ orchestrator = 0
    /\ msearch = [m \in 1..MaxRequests |-> IdleTool]
    /\ gsearch = IdleTool
    /\ pool = EmptyPool

NextShared ==
    \/ \E m \in ToolSlots, use_fallback \in BOOLEAN :
            CallMultiSearch(m, use_fallback, FALSE)
    \/ \E c \in CallSlots, outcome \in ToolOutcomes("bing") :
            PrimaryDone(c, outcome)
    \/ \E c \in CallSlots, engine \in DOMAIN ToolOutcomesOf :
            \E outcome \in ToolOutcomesOf[engine] :
                EngineDone(c, engine, outcome)
    \/ \E m \in ToolSlots : SearchDone(m)
    \/ \E m \in ToolSlots : ToolDone(m)

SpecShared == InitShared /\ [][NextShared]_vars

\* The pool of HTTP clients, used by tasks that call get_http_client,
\* get_cloudscraper_session and close_http_clients in any order, a call
\* possibly made while a close is suspended in aclose.
PoolCalls == MaxRequests + 2

InitPool ==
    /\ now = 0
    /\ budget = PoolCalls
    /\ reqs = [r \in {1} |-> Idle]
    /\ client_requests = EmptyTable
    /\ eh_error_counts = EmptyTable
    /\ operation_times = EmptyTable
    /\ operation_counts = EmptyTable
    /\ pm_error_counts = EmptyTable
    /\ max_requests_per_minute = MaxLimit
    /\ per_client = TRUE
    /\ transform_errors = TRUE
    /\ block_suspicious_requests = TRUE
    /\ decisions = <<>>
    /\ ENVIRONMENT = "production"
    /\ calls = [c \in {1} |-> IdleCall]
    /\ shutdown = NotClosing
    /\ InitTooling

NextPool ==
    \/ GetHttpClient
    \/ GetCloudscraperSession
    \/ CallCloseHttpClients
    \/ \E i \in 1..PoolCalls, raised \in BOOLEAN : AcloseDone(i, raised)

SpecPool == InitPool /\ [][NextPool]_vars

\* The google_search tool, one call at a time: with and without a ctx,
\* with and without use_multi_engine, every ctx step, every search and
\* rival_retrieve returning or raising.  The clock stands still.
NextGoogle ==
    \/ \E use_multi_engine \in BOOLEAN, ctx \in BOOLEAN :
            CallGoogleSearch(use_multi_engine, ctx)
    \/ \E raised \in BOOLEAN : GoogleCtxDone(raised)
    \/ MultiSearchDone
    \/ \E outcome \in ToolOutcomes("bing") : BingDone(outcome)
    \/ \E outcome \in RivalOutcomes : RivalDone(outcome)
    \/ GoogleDone
    \/ \E m \in ToolSlots, raised \in BOOLEAN : CtxDone(m, raised)
    \/ \E c \in CallSlots, outcome \in ToolOutcomes("bing") :
            PrimaryDone(c, outcome)
    \/ \E c \in CallSlots, engine \in DOMAIN ToolOutcomesOf :
            \E outcome \in ToolOutcomesOf[engine] :
                EngineDone(c, engine, outcome)
    \/ \E m \in ToolSlots : SearchDone(m)

SpecGoogle == Init /\ [][NextGoogle]_vars

(***************************************************************************)
(* Properties                                                              *)
(***************************************************************************)
\* the rate limit checks made for one client, in order
DecisionsOf(c) == SelectSeq(decisions, LAMBDA d : d.client = c)

\* the table key of a client when per-client tracking is on
WindowKey(ctx) == IF ctx = NoContext THEN "global" ELSE ctx

\* C1: while all requests of a client lie within one 60-second window, the
\* first L of them are admitted and every later one is rejected, request
\* L+1 in particular; a request made more than 60 seconds after the last
\* admitted one is admitted.
C1_WindowAdmitsFirstL ==
    \A c \in Contexts :
        LET h == DecisionsOf(c)
        IN \A k \in 1..Len(h) :
              /\ h[k].time - h[1].time < 60
                    => (h[k].admitted <=> k <= max_requests_per_minute)
              /\ (\A j \in 1..(k - 1) :
                        h[j].admitted => h[k].time - h[j].time > 60)
                    => h[k].admitted

\* request L+1 of a window was rejected and, more than 60 seconds after the
\* last admission, the client was admitted again
C1_Witness ==
    \E c \in Contexts :
        LET h == DecisionsOf(c)
        IN \E k, m \in 1..Len(h) :
              /\ k = max_requests_per_minute + 1
              /\ h[k].time - h[1].time < 60
              /\ ~h[k].admitted
              /\ k < m
              /\ h[m].admitted
              /\ \A j \in 1..(m - 1) :
                    h[j].admitted => h[m].time - h[j].time > 60

\* C2: a rejected request leaves in its client's window exactly the earlier
\* timestamps younger than 60 seconds and does not call the continuation;
\* an admitted request leaves those followed by its own timestamp.
C2_RejectedNotRecorded ==
    [][\A r \in DOMAIN reqs :
          (AtStage(r, "RateLimiting", "call") /\ reqs'[r] # reqs[r]) =>
             LET key == WindowKey(reqs[r].fastmcp_context)
                 old == IF key \in DOMAIN client_requests
                        THEN client_requests[key] ELSE <<>>
                 kept == SelectSeq(old, LAMBDA t : now - t < 60)
                 rejected == reqs'[r].phase = "raise"
             IN IF rejected
                THEN /\ client_requests'[key] = kept
                     /\ reqs'[r].pos = reqs[r].pos - 1
                     /\ reqs'[r].error.type = "ToolError"
                ELSE /\ client_requests'[key] = kept \o <<now>>
                     /\ reqs'[r].phase = "call"
                     /\ reqs'[r].pos = reqs[r].pos + 1
      ]_vars

\* a request has just been rejected and its client's window is still full
C2_Witness ==
    \E r \in DOMAIN reqs :
        /\ reqs[r].phase = "raise"
        /\ reqs[r].trace # <<>>
        /\ reqs[r].trace[Len(reqs[r].trace)] = <<"RateLimiting", "reject">>
        /\ LET key == WindowKey(reqs[r].fastmcp_context)
           IN /\ key \in DOMAIN client_requests
              /\ Len(client_requests[key]) = max_requests_per_minute

\* C3: the sample sequence stored for an operation never holds more than
\* 100 entries.
C3_SamplesBounded ==
    \A operation \in DOMAIN operation_times :
        Len(operation_times[operation]) <= 100

\* the requests that have been dispatched and not yet taken by the caller
Active == {r \in DOMAIN reqs : reqs[r].phase # "idle"}
Finished == {r \in DOMAIN reqs : reqs[r].phase \in {"returned", "failed"}}

\* the place of a stage in the order of registration
Registered(stage) == CHOOSE i \in 1..Len(middleware) : middleware[i] = stage

\* the events of a trace of one kind, and where the core handler ran
EventsOf(t, kinds) == SelectSeq(t, LAMBDA e : e[2] \in kinds)
CoreAt(t) == {i \in 1..Len(t) : t[i][1] = "core"}
HasEvent(t, e) == \E i \in 1..Len(t) : t[i] = e

\* C4: with stages registered S1..Sn a request enters Sn, ..., S1, then the
\* core handler runs, then the stages are left in the order S1, ..., Sn;
\* as registered, Logging is entered first and left last and Security is
\* entered last, next to the core handler.
C4_OnionOrder ==
    \A r \in Active :
        LET t == reqs[r].trace
            n == Len(middleware)
            enters == EventsOf(t, {"enter"})
            posts == EventsOf(t, {"exit", "except"})
        IN /\ \A i \in 1..Len(enters) : enters[i][1] = middleware[n + 1 - i]
           /\ Len(enters) >= 1 => t[1] = <<"Logging", "enter">>
           /\ \A i \in CoreAt(t) :
                 /\ i = n + 1
                 /\ t[n] = <<"Security", "enter">>
                 /\ \A j \in 1..n : t[j] = enters[j]
                 /\ \A j \in (n + 2)..Len(t) : t[j][1] = middleware[j - n - 1]
           /\ (reqs[r].phase = "returned") =>
                 /\ Len(t) = 2 * n + 1
                 /\ CoreAt(t) = {n + 1}
                 /\ \A j \in 1..n : t[n + 1 + j] = <<middleware[j], "exit">>
                 /\ t[Len(t)] = <<"Logging", "exit">>

\* a request went through every stage to the core handler and back
C4_Witness ==
    \E r \in Finished :
        /\ reqs[r].phase = "returned"
        /\ Len(reqs[r].trace) = 13
        /\ reqs[r].trace[7] = <<"core", "exit">>

\* the stages that saw the failure of the core handler, in the order in
\* which they saw it
Unwind(t) ==
    LET after == [j \in 1..(Len(t) - Len(middleware) - 1) |->
                     t[j + Len(middleware) + 1]]
    IN [j \in 1..Len(after) |-> after[j][1]]

CoreFailed(r) == HasEvent(reqs[r].trace, <<"core", "except">>)

\* C5 as stated: a failure raised in the core handler is seen by the stage
\* registered last first and by the stage registered first last.
C5_UnwindLastRegisteredFirst ==
    \A r \in Finished :
        CoreFailed(r) =>
            Unwind(reqs[r].trace) =
                <<"Logging", "Timing", "Performance", "RateLimiting",
                  "ErrorHandling", "Security">>

\* C5 as amended: a failure raised in the core handler is seen, as a
\* failure, by every stage, the stage registered first (the innermost)
\* first and the stage registered last (the outermost) last.
C5_UnwindFirstRegisteredFirst ==
    \A r \in Finished :
        CoreFailed(r) =>
            /\ reqs[r].phase = "failed"
            /\ Unwind(reqs[r].trace) =
                  <<"Security", "ErrorHandling", "RateLimiting",
                    "Performance", "Timing", "Logging">>
            /\ \A j \in 8..Len(reqs[r].trace) :
                  reqs[r].trace[j][2] = "except"

\* the core handler raised and the failure reached the caller
C5_Witness ==
    \E r \in Finished :
        /\ CoreFailed(r)
        /\ Len(reqs[r].trace) = 13

\* C6: when a stage raises before it calls the continuation, no stage
\* registered before it (inner to it) and not the core handler runs for the
\* request, and every stage registered after it (outer to it) sees the
\* failure in its except path.
C6_ShortCircuit ==
    \A r \in Active :
        LET t == reqs[r].trace
        IN \A i \in 1..Len(t) :
              t[i][2] = "reject" =>
                 LET at == Registered(t[i][1])
                 IN /\ CoreAt(t) = {}
                    /\ \A j \in 1..Len(t) :
                          j # i => Registered(t[j][1]) > at
                    /\ \A j \in (i + 1)..Len(t) : t[j][2] = "except"
                    /\ reqs[r].phase \in {"raise", "failed"}
                    /\ (reqs[r].phase = "failed") =>
                          \A k \in (at + 1)..Len(middleware) :
                             HasEvent(t, <<middleware[k], "except">>)

\* a request rejected by the rate limiter has reached the caller as a
\* failure, seen by the three stages around the rate limiter
C6_Witness ==
    \E r \in Finished :
        /\ HasEvent(reqs[r].trace, <<"RateLimiting", "reject">>)
        /\ Len(reqs[r].trace) = 7

\* the same letter in either case, or the same character
SameLetter(a, b) ==
    \/ a = b
    \/ \E n \in 1..Len(UpperCase) : {a, b} = {UpperCase[n], LowerCase[n]}

\* the payload contains a blocklisted substring in some letter case
HasBlockedSubstring(message) ==
    \E k \in 1..Len(suspicious_patterns) :
        LET pattern == suspicious_patterns[k]
        IN \E i \in 1..Len(message) :
              /\ i + Len(pattern) - 1 <= Len(message)
              /\ \A j \in 1..Len(pattern) :
                    SameLetter(message[i + j - 1], pattern[j])

\* C7: a payload with a blocklisted substring in any letter case is
\* rejected by the security stage with SecurityBlocked, before the
\* continuation, when blocking is enabled, and handed to the continuation
\* when blocking is disabled; a payload without one is always handed on.
C7_SecurityFilter ==
    \A r \in Active :
        LET t == reqs[r].trace
        IN \A i \in 1..Len(t) :
              (t[i][1] = "Security" /\ t[i][2] \in {"enter", "reject"}) =>
                 IF HasBlockedSubstring(reqs[r].message)
                    /\ block_suspicious_requests
                 THEN /\ t[i][2] = "reject"
                      /\ CoreAt(t) = {}
                      /\ reqs[r].error.type = "ToolError"
                      /\ reqs[r].error.msg =
                            <<"Request blocked due to security concerns">>
                 ELSE t[i][2] = "enter"

\* "DROP TABLE users" was rejected with blocking enabled
C7_Witness ==
    \E r \in Finished :
        /\ block_suspicious_requests
        /\ reqs[r].message = PayloadDropUpper
        /\ HasEvent(reqs[r].trace, <<"Security", "reject">>)
        /\ reqs[r].phase = "failed"

\* the request whose error the classifier is handling in this step
Classifying(r) ==
    /\ AtStage(r, "ErrorHandling", "raise")
    /\ reqs'[r] # reqs[r]

\* C8: with transformation enabled an untyped failure is replaced by
\* ToolExecutionFailed for a tools/ method, ResourceAccessFailed for a
\* resources/ method, PromptExecutionFailed for a prompts/ method and
\* GenericOperationFailed for any other; nothing but the method decides.
C8_WrapsByMethodPrefix ==
    [][\A r \in DOMAIN reqs :
          (Classifying(r) /\ transform_errors
             /\ reqs[r].error.type \notin
                   {"ToolError", "ResourceError", "PromptError"}) =>
             LET method == reqs[r].method
                 raised == reqs'[r].error
             IN /\ reqs'[r].phase = "raise"
                /\ method = ToolsCall =>
                      /\ raised.type = "ToolError"
                      /\ raised.msg[1] = "Tool execution failed: "
                /\ method = ResourcesRead =>
                      /\ raised.type = "ResourceError"
                      /\ raised.msg[1] = "Resource access failed: "
                /\ method = PromptsGet =>
                      /\ raised.type = "PromptError"
                      /\ raised.msg[1] = "Prompt execution failed: "
                /\ method = Ping =>
                      /\ raised.type = "ToolError"
                      /\ raised.msg[1] = "Operation failed: "
      ]_vars

\* an untyped failure of a prompts/ request has been wrapped
C8_Witness ==
    \E r \in Active :
        /\ reqs[r].method = PromptsGet
        /\ HasEvent(reqs[r].trace, <<"ErrorHandling", "except">>)
        /\ reqs[r].error =
              Error("PromptError", <<"Prompt execution failed: ", "boom">>)

\* C9: the classifier raises a failure that is already typed again with the
\* same kind and message, and the rate limiter, the performance, timing and
\* logging stages hand on the failure they see unchanged.
C9_ClassifiedOnce ==
    [][\A r \in DOMAIN reqs :
          /\ (Classifying(r) /\ transform_errors
                /\ reqs[r].error.type \in
                      {"ToolError", "ResourceError", "PromptError"}) =>
                /\ reqs'[r].phase = "raise"
                /\ reqs'[r].error = reqs[r].error
          /\ \A stage \in {"RateLimiting", "Performance", "Timing",
                           "Logging"} :
                (AtStage(r, stage, "raise") /\ reqs'[r] # reqs[r]) =>
                   /\ reqs'[r].phase \in {"raise", "failed"}
                   /\ reqs'[r].error = reqs[r].error
      ]_vars

\* a typed failure of the core handler reached the caller as it was raised
C9_Witness ==
    \E r \in Finished :
        /\ CoreFailed(r)
        /\ reqs[r].phase = "failed"
        /\ reqs[r].error = Error("ResourceError", <<"no such resource">>)

\* C10: with the registered stages and transformation enabled a dispatch
\* ends with the result of the core handler or with a failure of a typed
\* kind.
C10_TypedOutcome ==
    \A r \in Finished :
        IF reqs[r].phase = "returned"
        THEN /\ reqs[r].result = CoreResult
             /\ HasEvent(reqs[r].trace, <<"core", "exit">>)
        ELSE /\ reqs[r].error.type \in
                   {"ToolError", "ResourceError", "PromptError"}
             /\ \/ reqs[r].error.msg =
                      <<"Request blocked due to security concerns">>
                \/ reqs[r].error.msg[1] = "Rate limit exceeded. Maximum "
                \/ reqs[r].error.msg[1] \in
                      {"Tool execution failed: ", "Resource access failed: ",
                       "Prompt execution failed: ", "Operation failed: "}
                \/ reqs[r].error \in CoreErrors

\* an untyped failure of the core handler reached the caller as a
\* GenericOperationFailed
C10_Witness ==
    \E r \in Finished :
        /\ reqs[r].phase = "failed"
        /\ reqs[r].method = Ping
        /\ reqs[r].error = Error("ToolError", <<"Operation failed: ", "boom">>)

(***************************************************************************)
(* The orchestrator                                                        *)
(***************************************************************************)
Succeeded(outcome) == ~outcome.raised /\ outcome.results # <<>>

CallsOf(kind) == {c \in CallSlots : calls[c].pc # "idle" /\ calls[c].kind = kind}

PrimarySucceeded(call) ==
    Len(call.finished) >= 1 /\ Succeeded(call.finished[1].outcome)

PrimaryFailed(call) ==
    Len(call.finished) >= 1 /\ ~Succeeded(call.finished[1].outcome)

\* C11: search_with_fallback, once the highest-priority adapter has returned
\* at least one result, has returned a result with exactly one engine entry
\* (that adapter, status success), tagged with it as primary, with
\* successful_engines = 1 and total_results = the number of results
\* returned, and no other search has been started.
C11_PrimarySuccessReturnsAtOnce ==
    \A c \in CallsOf("search_with_fallback") :
        LET call == calls[c]
        IN PrimarySucceeded(call) =>
              /\ call.pc = "done"
              /\ call.started = <<engine_order[1]>>
              /\ DOMAIN call.ret.results = {engine_order[1]}
              /\ call.ret.results[engine_order[1]].status = "success"
              /\ call.ret.results[engine_order[1]].count =
                    Len(call.finished[1].outcome.results)
              /\ call.ret.primary_engine = engine_order[1]
              /\ call.ret.summary.successful_engines = 1
              /\ call.ret.summary.total_results =
                    Len(call.finished[1].outcome.results)

C11_Witness ==
    \E c \in CallsOf("search_with_fallback") :
        /\ calls[c].pc = "done"
        /\ PrimarySucceeded(calls[c])
        /\ Len(calls[c].finished[1].outcome.results) = MaxResults

\* what search_all_engines makes of the outcomes outs of its searches
RECURSIVE Feed(_, _, _)
Feed(call, outs, timestamp) ==
    IF outs = <<>> \/ call.pc # "loop" THEN call
    ELSE Feed(AfterSearch(call, Head(outs), timestamp), Tail(outs), timestamp)

SearchAllEnginesOn(params, fallback_on_failure, outs, timestamp) ==
    Feed(StartEngine(NewCall("search_all_engines", params,
                             fallback_on_failure), 1), outs, timestamp)

OutcomesAfterPrimary(call) ==
    [i \in 1..(Len(call.finished) - 1) |-> call.finished[i + 1].outcome]

\* C12: search_with_fallback, once the highest-priority adapter has raised
\* or returned no result, goes on without raising, and what it returns is
\* what search_all_engines over the whole registry with fallback_on_failure
\* = true returns on the outcomes of the searches made after the primary.
C12_PrimaryFailureFansOut ==
    \A c \in CallsOf("search_with_fallback") :
        LET call == calls[c]
            all == SearchAllEnginesOn(call.params, TRUE,
                                      OutcomesAfterPrimary(call), now)
        IN PrimaryFailed(call) =>
              /\ call.pc \in {"loop", "done"}
              /\ call.pc = all.pc
              /\ call.pc = "done" =>
                    /\ call.ret = all.ret
                    /\ Len(call.finished) = 1 + Len(engine_order)

C12_Witness ==
    \E c \in CallsOf("search_with_fallback") :
        /\ calls[c].pc = "done"
        /\ calls[c].finished[1].outcome.raised
        /\ \E i \in 2..Len(calls[c].finished) :
                Succeeded(calls[c].finished[i].outcome)

IsPrefix(s, t) == Len(s) <= Len(t) /\ \A i \in 1..Len(s) : s[i] = t[i]

\* the entry that the claim asks for after an outcome, its timestamp aside
Classified(attempt, outcome) ==
    IF outcome.raised
    THEN attempt.status = "failed"
    ELSE IF Len(outcome.results) >= 1
    THEN attempt.status = "success" /\ attempt.count = Len(outcome.results)
    ELSE attempt.status = "no_results" /\ attempt.count = 0

RECURSIVE SuccessCounts(_, _)
SuccessCounts(results, names) ==
    IF names = <<>> THEN 0
    ELSE (IF results[Head(names)].status = "success"
          THEN results[Head(names)].count ELSE 0)
         + SuccessCounts(results, Tail(names))

\* C13: search_all_engines with fallback_on_failure = true starts the
\* searches in the order of the registry, each adapter once, and returns
\* after all of them with one entry per adapter: failed if its search
\* raised, success with count = the number of results if it returned some,
\* no_results with count 0 if it returned none; total_results of the
\* summary is the sum of the counts of the success entries.
C13_FanOutRecordsEveryAdapter ==
    \A c \in CallsOf("search_all_engines") :
        LET call == calls[c]
        IN call.fallback_on_failure =>
              /\ IsPrefix(call.started, engine_order)
              /\ call.pc = "done" =>
                    /\ call.started = engine_order
                    /\ Len(call.finished) = Len(engine_order)
                    /\ DOMAIN call.ret.results =
                          {engine_order[i] : i \in 1..Len(engine_order)}
                    /\ \A i \in 1..Len(engine_order) :
                          /\ call.finished[i].engine = engine_order[i]
                          /\ Classified(call.ret.results[engine_order[i]],
                                        call.finished[i].outcome)
                    /\ call.ret.summary.total_results =
                          SuccessCounts(call.ret.results, engine_order)

C13_Witness ==
    \E c \in CallsOf("search_all_engines") :
        LET call == calls[c]
        IN /\ call.fallback_on_failure
           /\ call.pc = "done"
           /\ call.finished[1].outcome.raised
           /\ Len(call.finished[2].outcome.results) = 2
           /\ ~call.finished[3].outcome.raised
           /\ call.finished[3].outcome.results = <<>>

\* C14: search_all_engines with fallback_on_failure = false starts the
\* searches in the order of the registry and starts none after a search that
\* raised; a search that returned, with or without results, is followed by
\* the next; the entries returned are those of the adapters searched.
C14_NoFallbackStopsAtFirstFailure ==
    \A c \in CallsOf("search_all_engines") :
        LET call == calls[c]
            n == Len(call.finished)
        IN ~call.fallback_on_failure =>
              /\ IsPrefix(call.started, engine_order)
              /\ \A i \in 1..n :
                    call.finished[i].outcome.raised =>
                        i = n /\ Len(call.started) = n /\ call.pc = "done"
              /\ (n >= 1 /\ n < Len(engine_order)
                    /\ ~call.finished[n].outcome.raised) =>
                        call.pc = "loop" /\ Len(call.started) = n + 1
              /\ call.pc = "done" =>
                    /\ Len(call.started) = n
                    /\ DOMAIN call.ret.results =
                          {engine_order[i] : i \in 1..n}
                    /\ \A i \in 1..n :
                          Classified(call.ret.results[engine_order[i]],
                                     call.finished[i].outcome)

C14_Witness ==
    \E c \in CallsOf("search_all_engines") :
        LET call == calls[c]
        IN /\ ~call.fallback_on_failure
           /\ call.pc = "done"
           /\ Len(call.finished) = 2
           /\ call.finished[1].outcome.results = <<>>
           /\ call.finished[2].outcome.raised
           /\ DOMAIN call.ret.results = {engine_order[1], engine_order[2]}

\* the calls that have returned a result of search_all_engines
WithSummary ==
    {c \in CallSlots : /\ calls[c].pc = "done"
                       /\ "engines_tested" \in DOMAIN calls[c].ret.summary}

EntriesWith(results, status) ==
    {e \in DOMAIN results : results[e].status = status}

\* C15: in the summary of search_all_engines successful_engines is the
\* number of entries with status success and failed_engines the number of
\* entries with status failed.
C15_CountsFromAttempts ==
    \A c \in WithSummary :
        LET ret == calls[c].ret
        IN /\ ret.summary.successful_engines =
                 Cardinality(EntriesWith(ret.results, "success"))
           /\ ret.summary.failed_engines =
                 Cardinality(EntriesWith(ret.results, "failed"))

\* C16: in the summary of search_all_engines engines_tested is the length
\* of the registry, also when the loop was cut short and the result has
\* fewer entries.
C16_EnginesTestedIsRegistry ==
    \A c \in WithSummary :
        /\ calls[c].ret.summary.engines_tested = Len(engine_order)
        /\ Cardinality(DOMAIN calls[c].ret.results) <= Len(engine_order)

C16_Witness ==
    \E c \in WithSummary :
        /\ ~calls[c].fallback_on_failure
        /\ Cardinality(DOMAIN calls[c].ret.results) = 1
        /\ calls[c].ret.summary.engines_tested = Len(engine_order)

NoneSucceeded(call) ==
    \A i \in 1..Len(call.finished) : ~Succeeded(call.finished[i].outcome)

\* C17: no call of search_all_engines or search_with_fallback raises, and
\* a call in which no search succeeded returns a summary with
\* successful_engines = 0 and total_results = 0.
C17_NoSuccessStillReturns ==
    \A c \in CallSlots :
        LET call == calls[c]
        IN call.pc # "idle" =>
              /\ call.pc \in {"primary", "loop", "done"}
              /\ (call.pc = "done" /\ NoneSucceeded(call)) =>
                    /\ call.ret.summary.successful_engines = 0
                    /\ call.ret.summary.total_results = 0
                    /\ EntriesWith(call.ret.results, "success") = {}

C17_Witness ==
    \E c \in CallsOf("search_with_fallback") :
        LET call == calls[c]
        IN /\ call.pc = "done"
           /\ NoneSucceeded(call)
           /\ Len(call.finished) = 1 + Len(engine_order)
           /\ \A i \in 1..Len(call.finished) :
                 call.finished[i].outcome.raised <=> i # 3

\* C18: close_all_engines closes the adapters of the registry in order,
\* each once, whichever closes raise, and does not raise.
C18_CloseEveryAdapter ==
    shutdown.pc # "idle" =>
        /\ shutdown.pc \in {"closing", "done"}
        /\ IsPrefix(shutdown.attempted, engines)
        /\ Len(shutdown.attempted) = shutdown.idx
        /\ shutdown.pc = "done" => shutdown.attempted = engines

C18_Witness ==
    /\ shutdown.pc = "done"
    /\ shutdown.attempted = engines
    /\ shutdown.failures = 2

\* C19: in a call of search_all_engines or search_with_fallback a search is
\* started only when every search started before it has returned or raised:
\* at most one search of the call is in flight.
C19_SearchesSequential ==
    \A c \in CallSlots :
        LET call == calls[c]
            inflight == Len(call.started) - Len(call.finished)
        IN call.pc # "idle" =>
              /\ inflight \in {0, 1}
              /\ inflight = 1 <=> call.pc \in {"primary", "loop"}
              /\ \A i \in 1..Len(call.finished) :
                    call.finished[i].engine = call.started[i]

C19_Witness ==
    \E c \in CallSlots :
        /\ calls[c].pc = "loop"
        /\ Len(calls[c].started) = 3
        /\ Len(calls[c].finished) = 2

(***************************************************************************)
(* The server                                                              *)
(***************************************************************************)
StageEvents(t) == {i \in 1..Len(t) : t[i][1] # "core"}

ThroughChain(t) ==
    /\ Len(t) >= 1 => t[1] = <<"Logging", "enter">>
    /\ \A i \in CoreAt(t) :
          \A k \in 1..Len(middleware) :
              \E j \in 1..(i - 1) : t[j] = <<middleware[k], "enter">>

\* C20: every invocation passes through the chain of stages, for every
\* value of ENVIRONMENT.
C20_ChainInEveryEnvironment ==
    \A r \in Active : ThroughChain(reqs[r].trace)

\* C20, amended: every invocation passes through the chain of stages when
\* ENVIRONMENT is "production"; for every other value no stage is
\* registered and the invocation goes to the core handler alone.
C20_ChainInProductionOnly ==
    \A r \in Active :
        IF ENVIRONMENT = "production"
        THEN ThroughChain(reqs[r].trace)
        ELSE StageEvents(reqs[r].trace) = {}

C20_Witness ==
    \E r \in Finished :
        /\ ENVIRONMENT = "development"
        /\ reqs[r].message = PayloadDropUpper
        /\ reqs[r].trace = <<<<"core", "exit">>>>

(***************************************************************************)
(* The tables of the stages                                                *)
(***************************************************************************)
LeavingStage(r, stage) ==
    /\ AtStage(r, stage, "return") \/ AtStage(r, stage, "raise")
    /\ reqs'[r] # reqs[r]

\* s is t without some of its oldest elements
IsSuffix(s, t) ==
    /\ Len(s) <= Len(t)
    /\ \A i \in 1..Len(s) : s[i] = t[Len(t) - Len(s) + i]

PerformanceTables == <<operation_times, operation_counts, pm_error_counts>>

\* C21: a request that leaves the performance stage, returning or raising,
\* has added one sample (its duration, as the newest) and one to the count
\* of its operation, and one to the error count exactly when it raised; no
\* other step changes these tables; get_metrics reports the count, the error
\* count and success_rate = 1 - error_count / count of each operation.
C21_OneSampleOneCount ==
    [][
        /\ \A r \in Slots :
            LeavingStage(r, "Performance") =>
                LET operation == reqs[r].method
                    duration == now - reqs[r].pm_start_time
                    old == Get(operation_times, operation, <<>>)
                    new == Get(operation_times, operation, <<>>)'
                    raised == reqs[r].phase = "raise"
                IN /\ new # <<>>
                   /\ new[Len(new)] = duration
                   /\ IsSuffix(SubSeq(new, 1, Len(new) - 1), old)
                   /\ Get(operation_counts, operation, 0)' =
                         Get(operation_counts, operation, 0) + 1
                   /\ Get(pm_error_counts, operation, 0)' =
                         Get(pm_error_counts, operation, 0)
                            + (IF raised THEN 1 ELSE 0)
                   /\ \A m \in Methods \ {operation} :
                         /\ Get(operation_times, m, <<>>)' =
                               Get(operation_times, m, <<>>)
                         /\ Get(operation_counts, m, 0)' =
                               Get(operation_counts, m, 0)
                         /\ Get(pm_error_counts, m, 0)' =
                               Get(pm_error_counts, m, 0)
        /\ (\A r \in Slots : ~LeavingStage(r, "Performance")) =>
                UNCHANGED PerformanceTables
        /\ \A m \in DOMAIN operation_counts' :
                /\ m \in DOMAIN get_metrics'
                /\ get_metrics'[m].count = operation_counts'[m]
                /\ get_metrics'[m].error_count = Get(pm_error_counts, m, 0)'
                /\ get_metrics'[m].success_rate.den = operation_counts'[m]
                /\ get_metrics'[m].success_rate.num =
                      operation_counts'[m] - Get(pm_error_counts, m, 0)'
      ]_vars

\* one request returned and one raised: success_rate is 1/2
C21_Witness ==
    /\ ToolsCall \in DOMAIN get_metrics
    /\ Len(operation_times[ToolsCall]) = 2
    /\ get_metrics[ToolsCall].count = 2
    /\ get_metrics[ToolsCall].error_count = 1
    /\ get_metrics[ToolsCall].success_rate = [num |-> 1, den |-> 2]

\* C22: a failure that the error handling stage catches adds one to the
\* counter keyed by the kind of the caught error and the method, and changes
\* no other counter; a request that returns changes none; no step removes
\* or lowers a counter.
C22_ErrorCountersOnlyGrow ==
    [][
        /\ \A r \in Slots :
            LeavingStage(r, "ErrorHandling") =>
                LET error_key == <<reqs[r].error.type, reqs[r].method>>
                IN IF reqs[r].phase = "raise"
                   THEN eh_error_counts' =
                            Put(eh_error_counts, error_key,
                                Get(eh_error_counts, error_key, 0) + 1)
                   ELSE UNCHANGED eh_error_counts
        /\ (\A r \in Slots : ~LeavingStage(r, "ErrorHandling")) =>
                UNCHANGED eh_error_counts
        /\ \A k \in DOMAIN eh_error_counts :
                /\ k \in DOMAIN eh_error_counts'
                /\ eh_error_counts'[k] >= eh_error_counts[k]
      ]_vars

\* a failure was counted, then a request returned
C22_Witness ==
    /\ DOMAIN eh_error_counts = {<<"ValueError", ToolsCall>>}
    /\ eh_error_counts[<<"ValueError", ToolsCall>>] = 1
    /\ \E r \in Finished : reqs[r].phase = "returned"

\* the window that the claim gives to a request; the claim does not name
\* the window of a request whose context carries no client id ("None"): it
\* is one that no client id and no request without context uses
ClaimedWindow(ctx) ==
    IF per_client /\ ctx # NoContext
    THEN (IF ctx = "None" THEN GetClientId(ctx) ELSE ctx)
    ELSE "global"

ClientIds == Contexts \ {NoContext}

\* C23: a request at the rate limiter reads and writes one window: the one
\* of its client when tracking is per client and the request has a client
\* context, the one keyed "global" otherwise.  It is rejected exactly when
\* that window, pruned, is full, and every other window is left as it was;
\* no other step changes a window.
C23_OneWindowPerClient ==
    [][
        /\ \A r \in Slots :
            (AtStage(r, "RateLimiting", "call") /\ reqs'[r] # reqs[r]) =>
                LET key == ClaimedWindow(reqs[r].fastmcp_context)
                    own == Prune(Get(client_requests, key, <<>>), now)
                    full == Len(own) >= max_requests_per_minute
                IN /\ \A k \in (DOMAIN client_requests
                                    \cup DOMAIN client_requests') \ {key} :
                         /\ k \in DOMAIN client_requests
                         /\ k \in DOMAIN client_requests'
                         /\ client_requests'[k] = client_requests[k]
                   /\ key \in DOMAIN client_requests'
                   /\ (per_client /\ reqs[r].fastmcp_context = "None") =>
                         key \notin ClientIds \cup {"global"}
                   /\ full <=> reqs'[r].phase = "raise"
                   /\ ~full <=> client_requests'[key] = Append(own, now)
        /\ (\A r \in Slots : ~AtStage(r, "RateLimiting", "call")) =>
                UNCHANGED client_requests
      ]_vars

\* with a limit of 1, c2 is admitted at the instant at which c1 has used up
\* its limit
C23_Witness ==
    /\ per_client
    /\ max_requests_per_minute = 1
    /\ Len(decisions) = 2
    /\ decisions[1].client = "c1" /\ decisions[1].admitted
    /\ decisions[2].client = "c2" /\ decisions[2].admitted
    /\ decisions[1].time = decisions[2].time
    /\ DOMAIN client_requests = {"c1", "c2"}

\* the timestamps of a window that are less than 60 seconds old
Recent(window, current_time) ==
    {i \in 1..Len(window) : window[i] > current_time - 60}

\* C24: the window that a request leaves behind at the rate limiter holds
\* only timestamps newer than now - 60 s, at most limit + 1 of them; the
\* request is rejected in that same step, with the clock where it was,
\* exactly when limit or more such timestamps were there, and a rejected
\* request is never let through later.
C24_WindowPrunedAndBounded ==
    [][
        /\ \A r \in Slots :
            (AtStage(r, "RateLimiting", "call") /\ reqs'[r] # reqs[r]) =>
                LET key == GetClientId(reqs[r].fastmcp_context)
                    before == Get(client_requests, key, <<>>)
                    after == client_requests'[key]
                    full == Cardinality(Recent(before, now))
                                >= max_requests_per_minute
                IN /\ Recent(after, now) = 1..Len(after)
                   /\ Len(after) <= max_requests_per_minute + 1
                   /\ now' = now
                   /\ IF full
                      THEN /\ reqs'[r].phase = "raise"
                           /\ reqs'[r].error = RateLimitExceeded
                           /\ Len(after) = Cardinality(Recent(before, now))
                      ELSE /\ reqs'[r].phase = "call"
                           /\ Len(after) = Cardinality(Recent(before, now)) + 1
        /\ \A r \in Slots :
            (/\ reqs'[r].phase # "idle"
             /\ HasEvent(reqs'[r].trace, <<"RateLimiting", "reject">>)) =>
                /\ ~HasEvent(reqs'[r].trace, <<"RateLimiting", "enter">>)
                /\ CoreAt(reqs'[r].trace) = {}
      ]_vars

\* limit 1: admitted at 0, rejected at 30, admitted again at 60, when the
\* first timestamp is dropped
C24_Witness ==
    /\ max_requests_per_minute = 1
    /\ Len(decisions) = 3
    /\ decisions[1].admitted /\ decisions[1].time = 0
    /\ ~decisions[2].admitted /\ decisions[2].time = 30
    /\ decisions[3].admitted /\ decisions[3].time = 60
    /\ \A i \in 1..3 : decisions[i].client = "c1"
    /\ client_requests["c1"] = <<60>>

\* the requests that a stage has seen leaving, with one of the events
Seen(stage, events) ==
    {r \in Active : \E e \in events : HasEvent(reqs[r].trace, <<stage, e>>)}

Admitted(c, from, to) ==
    {i \in 1..Len(decisions) : /\ decisions[i].admitted
                               /\ decisions[i].client = c
                               /\ decisions[i].time > from
                               /\ decisions[i].time <= to}

\* C25: with requests interleaved at their suspension points no update of
\* a table is lost: the rate limiter has admitted at most L requests of a
\* client in any 60 seconds, the counts of the performance stage are the
\* numbers of requests that have left it (and that have left it raising),
\* and each counter of the error handling stage is the number of failures
\* of its kind that the stage has caught.
C25_NoLostUpdate ==
    /\ \A c \in ClientIds :
          \A i \in 1..Len(decisions) :
              Cardinality(Admitted(c, decisions[i].time - 60,
                                   decisions[i].time))
                 <= max_requests_per_minute
    /\ Get(operation_counts, ToolsCall, 0) =
          Cardinality(Seen("Performance", {"exit", "except"}))
    /\ Len(Get(operation_times, ToolsCall, <<>>)) =
          Cardinality(Seen("Performance", {"exit", "except"}))
    /\ Get(pm_error_counts, ToolsCall, 0) =
          Cardinality(Seen("Performance", {"except"}))
    /\ Get(eh_error_counts, <<"ValueError", ToolsCall>>, 0) =
          Cardinality(Seen("ErrorHandling", {"except"})
                         \cap Seen("core", {"except"}))
    /\ Get(eh_error_counts, <<"ToolError", ToolsCall>>, 0) =
          Cardinality(Seen("ErrorHandling", {"except"})
                         \cap Seen("Security", {"reject"}))
    /\ DOMAIN eh_error_counts \subseteq
          {<<"ValueError", ToolsCall>>, <<"ToolError", ToolsCall>>}
    /\ DOMAIN operation_counts \subseteq {ToolsCall}

\* the second request has come and failed while the first is suspended in
\* its core handler, and the first has then returned
C25_Witness ==
    /\ reqs[1].phase = "return"
    /\ reqs[1].pos = Len(Chain)
    /\ reqs[2].phase = "failed"
    /\ HasEvent(reqs[2].trace, <<"core", "except">>)
    /\ Get(operation_counts, ToolsCall, 0) = 1
    /\ Get(eh_error_counts, <<"ValueError", ToolsCall>>, 0) = 1

\* C26: when a request returns through the performance stage and more
\* than 100 samples would be stored, the 100 newest are kept in the order
\* in which they were recorded; the count of the operation goes up by one
\* all the same, and no step lowers it.
C26_EvictionIsFIFO ==
    [][
        /\ \A r \in Slots :
            (LeavingStage(r, "Performance") /\ reqs[r].phase = "return") =>
                LET operation == reqs[r].method
                    recorded == Append(Get(operation_times, operation, <<>>),
                                       now - reqs[r].pm_start_time)
                    kept == operation_times'[operation]
                    n == Len(recorded)
                IN /\ n > 100 =>
                        /\ Len(kept) = 100
                        /\ \A i \in 1..100 : kept[i] = recorded[n - 100 + i]
                   /\ n <= 100 => kept = recorded
                   /\ operation_counts'[operation] =
                         Get(operation_counts, operation, 0) + 1
        /\ \A m \in DOMAIN operation_counts :
                /\ m \in DOMAIN operation_counts'
                /\ operation_counts'[m] >= operation_counts[m]
      ]_vars

\* two more requests have returned: the two oldest samples (90 and 60) are
\* gone, the third (30) is now the oldest, and the count is 102
C26_Witness ==
    /\ operation_counts[ToolsCall] = 102
    /\ Len(operation_times[ToolsCall]) = 100
    /\ operation_times[ToolsCall][1] = 30
    /\ operation_times[ToolsCall][99] = 30
    /\ operation_times[ToolsCall][100] = 0

\* the fields of a Summary
SummaryFields ==
    {"query", "engines_tested", "successful_engines", "failed_engines",
     "total_results", "extract_content", "follow_links", "max_depth",
     "timestamp"}

\* C27: every result that search_with_fallback or search_all_engines
\* returns has a summary with the query, the engines tested, the successful
\* and the failed count, the total of results, the parameters of the
\* request and a timestamp.
C27_SummaryComplete ==
    \A c \in CallSlots :
        calls[c].pc = "done" =>
            /\ "summary" \in DOMAIN calls[c].ret
            /\ SummaryFields \subseteq DOMAIN calls[c].ret.summary

\* C28: with error transformation off the error handling stage raises the
\* error that it caught, typed or not, with its kind and its message, and
\* adds one to the counter of its kind and method.
C28_NoTransformReraises ==
    [][
        \A r \in Slots :
            (/\ LeavingStage(r, "ErrorHandling")
             /\ reqs[r].phase = "raise"
             /\ ~transform_errors) =>
                LET error_key == <<reqs[r].error.type, reqs[r].method>>
                IN /\ reqs'[r].phase = "raise"
                   /\ reqs'[r].error = reqs[r].error
                   /\ Get(eh_error_counts, error_key, 0)' =
                         Get(eh_error_counts, error_key, 0) + 1
      ]_vars

C28_Witness ==
    /\ ~transform_errors
    /\ \E r \in Finished :
          /\ reqs[r].phase = "failed"
          /\ reqs[r].error = Error("ValueError", <<"boom">>)
    /\ Get(eh_error_counts, <<"ValueError", ToolsCall>>, 0) = 1

\* the text t has the text s in it, fragment by fragment
HasText(t, s) ==
    \E k \in 0..(Len(t) - Len(s)) : SubSeq(t, k + 1, k + Len(s)) = s

\* C29: the typed error into which the error handling stage turns a
\* generic error has the message of the generic error in its own message,
\* unchanged.
C29_WrappedKeepsMessage ==
    [][
        \A r \in Slots :
            (/\ LeavingStage(r, "ErrorHandling")
             /\ reqs[r].phase = "raise"
             /\ transform_errors
             /\ reqs[r].error.type \notin TypedErrors) =>
                /\ reqs'[r].error.type \in TypedErrors
                /\ reqs[r].error.msg # <<>>
                /\ HasText(reqs'[r].error.msg, reqs[r].error.msg)
      ]_vars

C29_Witness ==
    \E r \in Finished :
        /\ reqs[r].phase = "failed"
        /\ HasEvent(reqs[r].trace, <<"core", "except">>)
        /\ reqs[r].error =
              Error("ResourceError", <<"Resource access failed: ", "boom">>)

Searches(call, engine) ==
    Cardinality({i \in 1..Len(call.started) : call.started[i] = engine})

WindowOf(ctx) == Get(client_requests, GetClientId(ctx), <<>>)

\* the requests that the security stage has blocked
BlockedBySecurity ==
    {r \in Active : HasEvent(reqs[r].trace, <<"Security", "reject">>)}

\* C32: the rate limiter runs before the security filter: a request that
\* the security filter blocks has passed the rate limiter, which admitted
\* it and appended its time to the window of its client, where it is the
\* newest entry and counts against the limit of the client.
C32_BlockedRequestCounted ==
    \A r \in BlockedBySecurity :
        LET t == reqs[r].trace
            window == WindowOf(reqs[r].fastmcp_context)
        IN /\ \E i, j \in 1..Len(t) :
                 /\ i < j
                 /\ t[i] = <<"RateLimiting", "enter">>
                 /\ t[j] = <<"Security", "reject">>
           /\ decisions # <<>>
           /\ decisions[Len(decisions)].admitted
           /\ decisions[Len(decisions)].client = reqs[r].fastmcp_context
           /\ window # <<>>
           /\ window[Len(window)] = decisions[Len(decisions)].time
           /\ Len(Prune(window, decisions[Len(decisions)].time)) \in
                 1..max_requests_per_minute

\* a blocked request has filled the window of a client whose limit is one
C32_Witness ==
    \E r \in BlockedBySecurity :
        /\ reqs[r].phase = "failed"
        /\ reqs[r].error = SecurityBlocked
        /\ max_requests_per_minute = 1
        /\ OverLimit(Prune(WindowOf(reqs[r].fastmcp_context), now))

\* the sum of the counters of a table
RECURSIVE CounterTotal(_)
CounterTotal(tbl) ==
    IF DOMAIN tbl = {} THEN 0
    ELSE LET k == CHOOSE key \in DOMAIN tbl : TRUE
         IN tbl[k] + CounterTotal([j \in DOMAIN tbl \ {k} |-> tbl[j]])

\* how often an event stands in a trace
Times(t, e) == Len(SelectSeq(t, LAMBDA x : x = e))

\* the requests rejected by the rate limiter, and those that failed in the
\* security filter or in the core handler
RateLimited == Seen("RateLimiting", {"reject"})
FailedInside == Seen("Security", {"reject"}) \cup Seen("core", {"except"})

\* C33: a request rejected by the rate limiter never reaches the error
\* handling stage and adds to no error counter; a request blocked by the
\* security filter and a request whose core handler raised each pass the
\* except clause of the error handling stage once and add one to one
\* counter: the counters sum to the number of such requests caught so far.
C33_CountedRejections ==
    /\ \A r \in RateLimited :
          /\ \A i \in 1..Len(reqs[r].trace) :
                reqs[r].trace[i][1] \notin {"ErrorHandling", "Security", "core"}
          /\ reqs[r].error = RateLimitExceeded
          /\ r \notin FailedInside
    /\ \A r \in FailedInside :
          /\ Times(reqs[r].trace, <<"ErrorHandling", "except">>) <= 1
          /\ reqs[r].phase = "failed" =>
                Times(reqs[r].trace, <<"ErrorHandling", "except">>) = 1
    /\ Seen("ErrorHandling", {"except"}) \subseteq FailedInside
    /\ CounterTotal(eh_error_counts) =
          Cardinality(Seen("ErrorHandling", {"except"}))
    /\ \A k \in DOMAIN eh_error_counts : eh_error_counts[k] >= 1

\* one request was blocked by the security filter and counted, the next
\* was rejected by the rate limiter and not counted
C33_Witness ==
    \E r \in RateLimited, q \in Seen("Security", {"reject"}) :
        /\ reqs[r].phase = "failed"
        /\ reqs[q].phase = "failed"
        /\ CounterTotal(eh_error_counts) = 1
        /\ eh_error_counts[<<"ToolError", ToolsCall>>] = 1

\* the operations that have an entry in a table of the performance stage
Operations ==
    DOMAIN operation_counts \cup DOMAIN operation_times
        \cup DOMAIN pm_error_counts

\* C34: every operation with an entry in the performance stage has a count
\* of at least one, an error count between zero and its count, and at
\* least one and at most count samples; get_metrics reports each of them,
\* divides by no zero, and its success rate lies between 0 and 1.
C34_AggregatorConsistent ==
    /\ \A m \in Operations :
          LET count == Get(operation_counts, m, 0)
              error_count == Get(pm_error_counts, m, 0)
              times == Get(operation_times, m, <<>>)
          IN /\ count >= 1
             /\ 0 <= error_count
             /\ error_count <= count
             /\ times # <<>>
             /\ Len(times) <= count
    /\ DOMAIN get_metrics = Operations
    /\ \A m \in DOMAIN get_metrics :
          /\ get_metrics[m].avg_time_ms.den > 0
          /\ get_metrics[m].success_rate.den > 0
          /\ get_metrics[m].success_rate.num >= 0
          /\ get_metrics[m].success_rate.num <= get_metrics[m].success_rate.den

\* an operation all of whose requests failed (success rate 0) and one whose
\* request returned (success rate 1)
C34_Witness ==
    \E m, n \in DOMAIN get_metrics :
        /\ get_metrics[m].error_count = get_metrics[m].count
        /\ get_metrics[m].success_rate.num = 0
        /\ get_metrics[n].error_count = 0
        /\ get_metrics[n].success_rate = [num |-> 1, den |-> 1]

\* the stages that only observe a request
Transparent == {"Timing", "Logging", "Performance"}

\* the request takes a step at a stage that it has reached calling
EnteringStage(r, stage) ==
    /\ AtStage(r, stage, "call")
    /\ reqs'[r] # reqs[r]

\* C36: the timing, logging and performance stages are transparent: each
\* calls its continuation whenever it is entered, and once per request; it
\* hands the result of the continuation to its caller as it is, and lets
\* the failure of the continuation propagate as it is; a request leaves
\* the stage the way it came back to it.
C36_TransparentStages ==
    [][
        \A r \in Slots, stage \in Transparent :
            /\ EnteringStage(r, stage) =>
                  /\ reqs'[r].phase = "call"
                  /\ reqs'[r].pos = reqs[r].pos + 1
                  /\ Times(reqs'[r].trace, <<stage, "enter">>) = 1
                  /\ reqs'[r].message = reqs[r].message
                  /\ reqs'[r].method = reqs[r].method
            /\ (LeavingStage(r, stage) /\ reqs[r].phase = "return") =>
                  /\ reqs'[r].phase \in {"return", "returned"}
                  /\ reqs'[r].result = reqs[r].result
                  /\ reqs'[r].trace = Append(reqs[r].trace, <<stage, "exit">>)
            /\ (LeavingStage(r, stage) /\ reqs[r].phase = "raise") =>
                  /\ reqs'[r].phase \in {"raise", "failed"}
                  /\ reqs'[r].error = reqs[r].error
                  /\ reqs'[r].trace = Append(reqs[r].trace, <<stage, "except">>)
            /\ LeavingStage(r, stage) =>
                  /\ reqs'[r].pos = reqs[r].pos - 1
                  /\ Times(reqs'[r].trace, <<stage, "exit">>)
                        + Times(reqs'[r].trace, <<stage, "except">>) = 1
                  /\ Times(reqs'[r].trace, <<stage, "reject">>) = 0
      ]_vars

\* a request rejected by the rate limiter and one that has returned have
\* both come out of the three stages, the one failed, the other returned
C36_Witness ==
    \E r, q \in Finished :
        /\ reqs[r].phase = "failed"
        /\ reqs[r].error = RateLimitExceeded
        /\ \A stage \in Transparent :
              HasEvent(reqs[r].trace, <<stage, "except">>)
        /\ reqs[q].phase = "returned"
        /\ reqs[q].result = CoreResult
        /\ \A stage \in Transparent :
              HasEvent(reqs[q].trace, <<stage, "exit">>)

\* the admitted requests among the checks h, in order
AdmittedOf(h) == SelectSeq(h, LAMBDA d : d.admitted)

\* the time of the L-th most recent admitted request of the checks h
LthRecentAdmitted(h) ==
    AdmittedOf(h)[Len(AdmittedOf(h)) + 1 - max_requests_per_minute].time

\* the last check of the client was a rejection
LockedOut(c) ==
    /\ DecisionsOf(c) # <<>>
    /\ ~DecisionsOf(c)[Len(DecisionsOf(c))].admitted

\* the clock can still reach an instant later than t
ClockCanPass(t) ==
    \E d \in TickSteps, k \in 0..MaxTime :
        /\ now + k * d <= MaxTime
        /\ now + k * d > t

\* the client is locked out and the clock can still pass the instant 60
\* seconds after its L-th most recent admitted request
LockoutCanEnd(c) ==
    IF LockedOut(c)
    THEN ClockCanPass(LthRecentAdmitted(DecisionsOf(c)) + WindowSeconds)
    ELSE FALSE

\* a request made more than 60 seconds after the L-th most recent admitted
\* request of its client is admitted, whatever was rejected in between
AdmittedAfterWindow ==
    \A c \in Contexts :
        LET h == DecisionsOf(c)
        IN \A k \in 1..Len(h) :
              LET before == SubSeq(h, 1, k - 1)
              IN \/ Len(AdmittedOf(before)) < max_requests_per_minute
                 \/ h[k].time - LthRecentAdmitted(before) > WindowSeconds
                 => h[k].admitted

\* C35: a rejected client is admitted again by its first request made more
\* than 60 seconds after its L-th most recent admitted request, however
\* many requests of it were rejected in between; and while the clock can
\* still pass that instant, a client that keeps sending is admitted again.
C35_LockoutEnds ==
    /\ []AdmittedAfterWindow
    /\ LockoutCanEnd("c1") ~> ~LockedOut("c1")

\* the client was rejected twice and admitted at its third try, the first
\* one 60 seconds or more after the admitted request that locked it out
C35_Witness ==
    /\ max_requests_per_minute = 1
    /\ Len(decisions) = 4
    /\ decisions[1].admitted /\ decisions[1].time = 0
    /\ ~decisions[2].admitted /\ decisions[2].time = 0
    /\ ~decisions[3].admitted /\ decisions[3].time = 30
    /\ decisions[4].admitted /\ decisions[4].time >= 60

\* the calls of multi_search that are over
ToolsOver == {m \in ToolSlots : msearch[m].pc \in {"returned", "raised"}}

\* ctx.error, awaited in the except clause, has raised
CtxErrorRaised(rec) ==
    \E i \in 1..Len(rec.notified) :
        rec.notified[i] = [at |-> "error", raised |-> TRUE]

\* a ctx call of the try block has raised
CtxRaisedInTry(rec) ==
    \E i \in 1..Len(rec.notified) :
        rec.notified[i].raised /\ rec.notified[i].at # "error"

\* C37: whatever the orchestrator and the ctx calls of the try block do,
\* multi_search lets no exception out: it returns the result of the
\* orchestrator, which has a summary, or a dict with status "failed", an
\* error text and no summary; without use_fallback it calls
\* search_all_engines with fallback_on_failure = true.  (The ctx.error of
\* the except clause is not one of the calls that the claim lets fail.)
C37_ToolNeverRaises ==
    /\ \A m \in ToolsOver :
          LET rec == msearch[m]
          IN ~CtxErrorRaised(rec) =>
                /\ rec.pc = "returned"
                /\ \/ /\ rec.ret = rec.results
                      /\ "summary" \in DOMAIN rec.ret
                      /\ ~CtxRaisedInTry(rec)
                   \/ /\ DOMAIN rec.ret = {"error", "status", "timestamp"}
                      /\ rec.ret.status = "failed"
                      /\ rec.ret.error # <<>>
                      /\ CtxRaisedInTry(rec)
    /\ \A m \in ToolSlots :
          msearch[m].pc = "search" =>
             /\ calls[m].pc \notin {"idle", "raised"}
             /\ calls[m].kind = IF msearch[m].use_fallback
                                THEN "search_with_fallback"
                                ELSE "search_all_engines"
             /\ calls[m].fallback_on_failure

\* a call with a ctx has returned the dict of a failure after its last
\* ctx step raised, the orchestrator having returned a result; and a call
\* without use_fallback goes on after the first engine has failed
C37_Witness ==
    \E m \in ToolsOver :
        /\ msearch[m].pc = "returned"
        /\ "status" \in DOMAIN msearch[m].ret
        /\ msearch[m].ret.status = "failed"
        /\ "summary" \in DOMAIN msearch[m].results
        /\ ~msearch[m].use_fallback
        /\ msearch[m].results.results["bing"].status = "failed"
        /\ msearch[m].results.results["yahoo"].status = "success"

\* the calls of multi_search whose search on an adapter of an orchestrator
\* instance is in flight
InFlightOn(instance, engine) ==
    {m \in ToolSlots :
        /\ msearch[m].pc = "search"
        /\ msearch[m].instance = instance
        /\ \/ calls[m].pc = "primary" /\ engine = "bing"
           \/ calls[m].pc = "loop" /\ engine = engine_order[calls[m].idx]}

\* C31: with concurrent calls of the tool, which share the orchestrator of
\* get_orchestrator, no adapter has two searches in flight at one time.
C31_OneSearchPerAdapter ==
    \A i \in 1..Len(engine_order) :
        Cardinality(InFlightOn(1, engine_order[i])) <= 1

\* all calls use the one instance that get_orchestrator has made
C31_SharedInstance ==
    /\ orchestrator \in {0, 1}
    /\ \A m \in ToolSlots :
          msearch[m].pc = "search" => msearch[m].instance = 1

\* the calls of close_http_clients that are suspended in aclose
Closing == pool.closers # <<>>

\* the clients made and not closed
Live == (1..pool.made) \ pool.closed

\* C40: between closes every get_http_client returns the same client and
\* at most one client is live; when close_http_clients is over both slots
\* are empty, and a further close changes nothing; the first
\* get_http_client after a close makes a fresh client, and no
\* get_http_client returns a closed one.
C40_PoolLifecycle ==
    LET log == pool.log
    IN /\ \A i, j \in 1..Len(log) :
             /\ i < j
             /\ log[i].op = "get" /\ log[j].op = "get"
             /\ \A k \in i..j : log[k].op \in {"get", "session"}
             => log[i].client = log[j].client
       /\ Cardinality(Live) <= 1
       /\ (log # <<>> /\ log[Len(log)].op \in {"closed", "raised"}) =>
             /\ pool.http_client = 0
             /\ pool.cloudscraper_session = 0
       /\ \A i \in 1..Len(log) :
             log[i].op = "get" =>
                /\ ~log[i].closed
                /\ (\E k \in 1..(i - 1) :
                       /\ log[k].op \in {"close", "closed", "raised"}
                       /\ \A j \in (k + 1)..(i - 1) : log[j].op # "get")
                      => log[i].fresh

\* no aclose has raised, and no call was made while a close was suspended
Sequential ==
    \A i \in 1..Len(pool.log) :
        /\ pool.log[i].op # "raised"
        /\ (pool.log[i].op = "close" /\ i < Len(pool.log))
              => pool.log[i + 1].op = "closed"

\* the lifecycle holds for calls that do not overlap and closes whose
\* aclose returns
C40_SequentialLifecycle ==
    (Sequential /\ ~Closing) => C40_PoolLifecycle

\* the result records in the dict that google_search returns: the
\* multi-engine fallback returns the dict of multi_search as its results
RecordsOf(ret) ==
    IF ret.method = "multi_engine_fallback" THEN ResultDicts(ret.results)
    ELSE ret.results

GoogleReturned == gsearch.pc = "returned"

\* C38: whenever google_search returns a dict with status "success", the
\* results of that dict hold at least one result record returned by an
\* engine or by the retrieve fallback; a fallback tier that produced an
\* error value or zero results is never reported as success.
C38_SuccessHasResults ==
    (GoogleReturned /\ gsearch.ret.status = "success")
        => RecordsOf(gsearch.ret) # <<>>

\* the same for the returns of the tiers that look at what they got: the
\* multi-engine search, the Bing fallback and rival_retrieve
C38_CheckedTiers ==
    (/\ GoogleReturned
     /\ gsearch.ret.status = "success"
     /\ gsearch.ret.method # "multi_engine_fallback")
        => RecordsOf(gsearch.ret) # <<>>

\* the rank of a tier in the order in which the claim names them
TierRank(tier) ==
    CASE tier = "tier1" -> 1 [] tier = "bing" -> 2
      [] tier = "tier3" -> 3 [] tier = "rival" -> 4

\* the tiers that the call has tried so far, the running one included
Tried == IF "tiers" \in DOMAIN gsearch THEN gsearch.tiers ELSE <<>>

GoogleNeverRaises == gsearch.pc # "raised"

GoogleStatus ==
    GoogleReturned => gsearch.ret.status \in {"success", "partial", "error"}

TiersInOrder ==
    \A i, j \in 1..Len(Tried) :
        i < j => TierRank(Tried[i].tier) < TierRank(Tried[j].tier)

FallbacksOnlyWhenEnabled ==
    \A i \in 1..Len(Tried) :
        Tried[i].tier \in {"tier3", "rival"} => gsearch.use_multi_engine

\* a tier that returned an error value counts as one that returned nothing
LaterTierAfterFailure ==
    \A i, j \in 1..Len(Tried) :
        i < j => Tried[i].outcome \in {"raised", "nothing", "error_value"}

\* C39: for every combination of failures of the search tiers and of ctx
\* notifications, google_search returns a dict whose status is success,
\* partial or error and never raises; the tiers are tried in the fixed
\* order multi-engine search, Bing fallback, multi-engine fallback,
\* rival_retrieve, the last two only when use_multi_engine is true, and
\* a later tier only after every earlier tier raised or returned nothing.
C39_TiersAndStatus ==
    /\ GoogleNeverRaises
    /\ GoogleStatus
    /\ TiersInOrder
    /\ FallbacksOnlyWhenEnabled
    /\ LaterTierAfterFailure

\* what of it the code keeps: the status, the order of the tiers and the
\* switch of the two last ones
C39_OrderAndSwitch ==
    GoogleStatus /\ TiersInOrder /\ FallbacksOnlyWhenEnabled

\* without a ctx no notification can fail, and the whole of it holds
C39_WithoutCtx ==
    (gsearch.pc # "idle" /\ ~gsearch.ctx) => C39_TiersAndStatus

====
